---- MODULE Spec2Model ----
(***************************************************************************)
(* Model of the recommendation-and-progress-analytics layer of the        *)
(* learning tracker: RecommenderAgent, ProfileAgent, AssessmentAgent,     *)
(* TrackerAgent and the DatabaseStorage accessors they call.              *)
(*                                                                         *)
(* Conventions                                                             *)
(*  - A string is a sequence of one-character strings, so that            *)
(*    toLowerCase() and includes() are computed and not assumed.          *)
(*  - A JavaScript number that may be NaN, or null after a JSON round     *)
(*    trip, is a tagged record [t, v]: Num(n), NaN or Null.               *)
(*  - A score is the numerator of a fraction over ScoreDen (= 7000, the   *)
(*    least common denominator of priority/100, gapScore*0.3 with         *)
(*    gapScore = k/70, 0.2, 0.1 and 0.15).                                *)
(*  - Timestamps are whole hours.                                         *)
(***************************************************************************)
EXTENDS Integers, Sequences, FiniteSets, TLC

VARIABLES
    \* ---- arguments and results of the pure analytics functions
    argSkills,        \* identifySkillGaps / createWeightedRecommendations input
    argAiRecs,        \* aiRecommendations.recommendations
    argPatterns,      \* learningPatterns
    retGaps,          \* <<result>> of identifySkillGaps, <<>> before the call
    retRecs,          \* <<result>> of createWeightedRecommendations, <<>> before
    argHistory,       \* assessmentHistory handed to calculateSkillProgression
    retTrend,         \* <<result>> of calculateSkillProgression, <<>> before
    retStreak,        \* <<result>> of calculateLearningStreak, <<>> before
    \* ---- persisted state (storage.ts)
    profile,          \* the user's profiles row, or NoProfile
    recommendations,  \* rows of the recommendations table, in insertion order
    userAssessments,  \* rows of user_assessments, in insertion order
    progressRows,     \* rows of user_module_progress, in insertion order
    alerts,           \* rows of progress_alerts, in insertion order
    \* ---- environment and bookkeeping
    now,              \* the clock, in hours
    calls,            \* number of handler calls started so far
    lastCall,         \* what the most recent handler call did (its outcome)
    touchDays,        \* calendar days on which an updateProgress call wrote
    procs,            \* in-flight requests: position and locals
    \* ---- hackathon tables (storage.ts)
    hackathons,             \* rows of the hackathons table
    hackathonParticipants   \* rows of hackathon_participants, in insertion order

vars == <<argSkills, argAiRecs, argPatterns, retGaps, retRecs, argHistory,
          retTrend, retStreak, profile, recommendations, userAssessments, progressRows,
          alerts, now, calls, lastCall, touchDays, procs,
          hackathons, hackathonParticipants>>

analyticVars == <<argSkills, argAiRecs, argPatterns, retGaps, retRecs>>
trendVars    == <<argHistory, retTrend, retStreak>>
storeVars    == <<profile, recommendations, userAssessments>>
trackVars    == <<progressRows, alerts, now, touchDays, procs>>
hackVars     == <<hackathons, hackathonParticipants>>

-----------------------------------------------------------------------------
(* Bounds of the model *)

MaxSkills      == 2
MaxSuggestions == 1
MaxHistory     == 4
MaxAnswers     == 2
MaxCalls       == 3
MaxRecRows     == 4

-----------------------------------------------------------------------------
(* JavaScript values *)

Num(n) == [t |-> "number", v |-> n]
NaN    == [t |-> "NaN", v |-> 0]
Null   == [t |-> "null", v |-> 0]

IsNumber(x) == x.t = "number"

\* ToNumber(null) = 0; used where the code compares or subtracts a stored
\* level (null < 70, 70 - null).
ToNumber(x) == x.v

\* JSON.stringify writes NaN as null (jsonb column of profiles.skills).
JsonRoundTrip(x) == IF x.t = "NaN" THEN Null ELSE x

\* Math.max(a, b): NaN if either argument is NaN, null counts as 0.
MathMax(a, b) ==
    IF a.t = "NaN" \/ b.t = "NaN" THEN NaN
    ELSE Num(IF ToNumber(a) >= ToNumber(b) THEN ToNumber(a) ELSE ToNumber(b))

\* Math.round(num/den) for den > 0: the nearest integer, halves toward +infinity.
MathRound(num, den) == (2 * num + den) \div (2 * den)

-----------------------------------------------------------------------------
(* Strings *)

UpperCaseChars == <<"J", "S", "G", "O">>
LowerCaseChars == <<"j", "s", "g", "o">>

LowerChar(c) ==
    IF \E i \in 1..Len(UpperCaseChars) : UpperCaseChars[i] = c
    THEN LowerCaseChars[CHOOSE i \in 1..Len(UpperCaseChars) : UpperCaseChars[i] = c]
    ELSE c

toLowerCase(s) == [i \in 1..Len(s) |-> LowerChar(s[i])]

\* s.includes(sub)
includes(s, sub) ==
    \E i \in 0..(Len(s) - Len(sub)) : SubSeq(s, i + 1, i + Len(sub)) = sub

\* the case-insensitive containment used for module and gap matching
includesIgnoreCase(s, sub) == includes(toLowerCase(s), toLowerCase(sub))

str_js   == <<"j", "s">>
str_JS   == <<"J", "S">>
str_Go   == <<"G", "o">>
str_j    == <<"j">>
str_gojs == <<"g", "o", " ", "j", "s">>
str_tour == <<"t", "o", "u", "r">>
str_r    == <<"r">>

-----------------------------------------------------------------------------
(* Sequences *)

RECURSIVE SeqsUpTo(_, _)
\* all sequences over S of length at most n
SeqsUpTo(S, n) ==
    IF n = 0 THEN {<<>>}
    ELSE LET shorter == SeqsUpTo(S, n - 1)
         IN  shorter \cup {Append(s, x) : s \in {q \in shorter : Len(q) = n - 1}, x \in S}

RECURSIVE SelectSeqIdx(_, _, _)
\* indices of s, in order, that satisfy Test
SelectSeqIdx(s, Test(_), i) ==
    IF i > Len(s) THEN <<>>
    ELSE IF Test(s[i]) THEN <<i>> \o SelectSeqIdx(s, Test, i + 1)
         ELSE SelectSeqIdx(s, Test, i + 1)

\* Array.prototype.sort with the comparator (a, b) => Key(b) - Key(a):
\* a stable sort into non-increasing Key order.  Element i goes to the
\* position after the elements that precede it in the sorted order.
SortDesc(s, Key(_)) ==
    LET Precedes(j, i) == \/ Key(s[j]) > Key(s[i])
                          \/ Key(s[j]) = Key(s[i]) /\ j < i
        position == [i \in 1..Len(s) |->
                        1 + Cardinality({j \in 1..Len(s) : Precedes(j, i)})]
    IN  [k \in 1..Len(s) |-> s[CHOOSE i \in 1..Len(s) : position[i] = k]]

-----------------------------------------------------------------------------
(* The learning-module catalog: storage.getLearningModules(), which returns  *)
(* the rows ordered by rating, highest first.  rating is in tenths.          *)

str_c == <<"c">>

AllModules ==
    << [id |-> "m1", technology |-> str_JS, title |-> str_tour,
        difficulty |-> "intermediate", duration |-> 3, rating |-> 48],
       [id |-> "m2", technology |-> str_Go, title |-> str_gojs,
        difficulty |-> "beginner", duration |-> 6, rating |-> 45],
       [id |-> "m3", technology |-> str_js, title |-> str_js,
        difficulty |-> "advanced", duration |-> 4, rating |-> 30],
       [id |-> "m4", technology |-> str_c, title |-> str_c,
        difficulty |-> "beginner", duration |-> 2, rating |-> 20],
       [id |-> "m5", technology |-> str_c, title |-> str_c,
        difficulty |-> "intermediate", duration |-> 2, rating |-> 10],
       [id |-> "m6", technology |-> str_c, title |-> str_c,
        difficulty |-> "advanced", duration |-> 2, rating |-> 0] >>

ModuleIds == {AllModules[i].id : i \in 1..Len(AllModules)}

-----------------------------------------------------------------------------
(* RecommenderAgent: the pure analytics functions *)

ScoreDen       == 7000
GapThreshold   == 70
GapWeightNum   == 30     \* 0.3  * ScoreDen / GapThreshold
PriorityWeight == 70     \* 1/100 * ScoreDen
DifficultyBonus == 1400  \* 0.2  * ScoreDen
DurationBonus  == 700    \* 0.1  * ScoreDen
RatingBonus    == 1050   \* 0.15 * ScoreDen
HighRating     == 45     \* 4.5, in tenths

\* gapScore = gapNum / GapThreshold
GapOf(skill) == [skill |-> skill.skill, gapNum |-> GapThreshold - ToNumber(skill.level)]

\* a variant that also counts a skill exactly at the threshold
IsGapLevelInclusive(skill) == ToNumber(skill.level) <= GapThreshold

IsGapLevel(skill) == ToNumber(skill.level) < GapThreshold

GapKey(g) == g.gapNum

identifySkillGaps(skills) ==
    LET idx  == SelectSeqIdx(skills, IsGapLevel, 1)
        gaps == [i \in 1..Len(idx) |-> GapOf(skills[idx[i]])]
    IN  SortDesc(gaps, GapKey)

\* a variant of the filter that looks at the module's technology only
ModuleMatchesTechnologyOnly(module, technology) ==
    includesIgnoreCase(module.technology, technology)

\* the filter of createWeightedRecommendations: modules whose technology or
\* title contains the suggestion's technology, case-insensitively
ModuleMatches(module, technology) ==
    \/ includesIgnoreCase(module.technology, technology)
    \/ includesIgnoreCase(module.title, technology)

\* a variant that only looks for the technology inside the skill name
RelatedGapOneWay(skillGaps, technology) ==
    LET hits == {i \in 1..Len(skillGaps) :
                    includesIgnoreCase(skillGaps[i].skill, technology)}
    IN  IF hits = {} THEN <<>>
        ELSE <<skillGaps[CHOOSE i \in hits : \A j \in hits : i <= j]>>

\* skillGaps.find(...): the first gap whose skill contains the technology or
\* is contained in it; <<>> when there is none
RelatedGap(skillGaps, technology) ==
    LET hits == {i \in 1..Len(skillGaps) :
                    \/ includesIgnoreCase(skillGaps[i].skill, technology)
                    \/ includesIgnoreCase(technology, skillGaps[i].skill)}
    IN  IF hits = {} THEN <<>>
        ELSE <<skillGaps[CHOOSE i \in hits : \A j \in hits : i <= j]>>

Abs(x) == IF x < 0 THEN -x ELSE x

\* the score before "Ensure score is between 0 and 1"
RawScore(aiRec, module, skillGaps, learningPatterns) ==
    LET relatedGap == RelatedGap(skillGaps, aiRec.technology)
    IN  PriorityWeight * aiRec.priority
        + (IF relatedGap # <<>> THEN GapWeightNum * relatedGap[1].gapNum ELSE 0)
        + (IF module.difficulty = learningPatterns.preferredDifficulty
           THEN DifficultyBonus ELSE 0)
        + (IF Abs(module.duration - learningPatterns.preferredDuration) <= 1
           THEN DurationBonus ELSE 0)
        + (IF module.rating >= HighRating THEN RatingBonus ELSE 0)

Min(a, b) == IF a <= b THEN a ELSE b
Max(a, b) == IF a >= b THEN a ELSE b

\* a variant without the upper clamp
ClampScoreNoCeiling(score) == Max(0, score)

\* Math.min(1, Math.max(0, score))
ClampScore(score) == Min(ScoreDen, Max(0, score))

GapNote == " This addresses a skill gap in your profile."

WeightedRec(aiRec, module, skillGaps, learningPatterns) ==
    [moduleId |-> module.id,
     score    |-> ClampScore(RawScore(aiRec, module, skillGaps, learningPatterns)),
     reason   |-> [text   |-> aiRec.reason,
                   suffix |-> IF RelatedGap(skillGaps, aiRec.technology) # <<>>
                              THEN GapNote ELSE " "]]

RECURSIVE WeightedFrom(_, _, _, _, _)
\* the two nested forEach loops: suggestions in order, matching modules in
\* catalog order
WeightedFrom(aiRecommendations, skillGaps, learningPatterns, allModules, i) ==
    IF i > Len(aiRecommendations) THEN <<>>
    ELSE LET aiRec == aiRecommendations[i]
             Hit(m) == ModuleMatches(m, aiRec.technology)
             idx == SelectSeqIdx(allModules, Hit, 1)
         IN  [k \in 1..Len(idx) |->
                 WeightedRec(aiRec, allModules[idx[k]], skillGaps, learningPatterns)]
             \o WeightedFrom(aiRecommendations, skillGaps, learningPatterns,
                             allModules, i + 1)

ScoreKey(r) == r.score

createWeightedRecommendations(aiRecommendations, skillGaps, learningPatterns, allModules) ==
    SortDesc(WeightedFrom(aiRecommendations, skillGaps, learningPatterns, allModules, 1),
             ScoreKey)

-----------------------------------------------------------------------------
(* TrackerAgent.calculateSkillProgression *)

TrendMargin == 5
RecentCount == 3

\* Object.entries(skillGroups): the technologies in order of first appearance
RECURSIVE TechnologiesOf(_, _, _)
TechnologiesOf(assessmentHistory, i, acc) ==
    IF i > Len(assessmentHistory) THEN acc
    ELSE LET tech == assessmentHistory[i].technology
         IN  TechnologiesOf(assessmentHistory, i + 1,
                 IF \E k \in 1..Len(acc) : acc[k] = tech THEN acc ELSE Append(acc, tech))

\* a variant that leaves the scores in the order supplied
InsertAscUnsorted(sorted, x) == Append(sorted, x)

\* scores.sort((a, b) => date(a) - date(b)): stable, ascending by completedAt
InsertAsc(sorted, x) ==
    LET k == Cardinality({i \in 1..Len(sorted) : sorted[i].date <= x.date})
    IN  SubSeq(sorted, 1, k) \o <<x>> \o SubSeq(sorted, k + 1, Len(sorted))

RECURSIVE SortByDateFrom(_, _, _)
SortByDateFrom(s, i, acc) ==
    IF i > Len(s) THEN acc ELSE SortByDateFrom(s, i + 1, InsertAsc(acc, s[i]))

\* skillGroups[tech], sorted
GroupScores(assessmentHistory, tech) ==
    LET InGroup(a) == a.technology = tech
        idx == SelectSeqIdx(assessmentHistory, InGroup, 1)
        group == [k \in 1..Len(idx) |->
                     [score |-> assessmentHistory[idx[k]].score,
                      date  |-> assessmentHistory[idx[k]].completedAt]]
    IN  SortByDateFrom(group, 1, <<>>)

RECURSIVE SumScores(_)
\* reduce((sum, s) => sum + s.score, 0); NaN once any score is NaN
SumScores(scores) ==
    IF scores = <<>> THEN Num(0)
    ELSE LET rest == SumScores(Tail(scores))
         IN  IF rest.t = "NaN" \/ scores[1].score.t = "NaN" THEN NaN
             ELSE Num(ToNumber(scores[1].score) + rest.v)

\* scores.slice(-3) and scores.slice(0, -3)
RecentOf(scores) == SubSeq(scores, Max(1, Len(scores) - RecentCount + 1), Len(scores))
\* a variant that slices one element less off the end
OlderOfShort(scores) == SubSeq(scores, 1, Len(scores) - RecentCount + 1)

OlderOf(scores)  == SubSeq(scores, 1, Len(scores) - RecentCount)

TrendOf(scores) ==
    LET recent == RecentOf(scores)
        older  == OlderOf(scores)
        sumR   == SumScores(recent)
        sumO   == SumScores(older)
    IN  IF Len(scores) >= 2 /\ Len(recent) >= 2 /\ Len(older) >= 1
           /\ IsNumber(sumR) /\ IsNumber(sumO)
        THEN \* recentAvg > olderAvg + 5, over the common denominator
             IF sumR.v * Len(older) > sumO.v * Len(recent)
                                      + TrendMargin * Len(recent) * Len(older)
             THEN "improving"
             ELSE IF sumR.v * Len(older) < sumO.v * Len(recent)
                                      - TrendMargin * Len(recent) * Len(older)
                  THEN "declining"
                  ELSE "stable"
        ELSE "stable"

calculateSkillProgression(assessmentHistory) ==
    LET techs == TechnologiesOf(assessmentHistory, 1, <<>>)
    IN  [k \in 1..Len(techs) |->
            [technology |-> techs[k],
             scores     |-> GroupScores(assessmentHistory, techs[k]),
             trend      |-> TrendOf(GroupScores(assessmentHistory, techs[k]))]]

-----------------------------------------------------------------------------
(* Persistence accessors (storage.ts) and the analytics over stored rows *)

\* the assessments table; the last one was generated with an empty question
\* list, which aiClient.generateAssessment accepts
Assessments ==
    << [id |-> "a1", technology |-> str_JS, difficulty |-> "beginner",
        questions |-> << [id |-> "q1", correctAnswer |-> 0],
                         [id |-> "q2", correctAnswer |-> 1] >>],
       [id |-> "a2", technology |-> str_Go, difficulty |-> "advanced",
        questions |-> << [id |-> "q1", correctAnswer |-> 1] >>],
       [id |-> "a3", technology |-> str_js, difficulty |-> "intermediate",
        questions |-> << >>] >>

\* assessments.find(a => a.id === assessmentId): <<a>>, or <<>> for undefined
FindAssessment(assessmentId) ==
    LET hits == {i \in 1..Len(Assessments) : Assessments[i].id = assessmentId}
    IN  IF hits = {} THEN <<>>
        ELSE <<Assessments[CHOOSE i \in hits : \A j \in hits : i <= j]>>

CompletedAtKey(r) == r.completedAt

\* storage.getUserAssessments: the rows joined with their assessment,
\* newest first
getUserAssessments(rows) ==
    LET joined == [i \in 1..Len(rows) |->
                      [score       |-> rows[i].score,
                       completedAt |-> rows[i].completedAt,
                       technology  |-> FindAssessment(rows[i].assessmentId)[1].technology,
                       difficulty  |-> FindAssessment(rows[i].assessmentId)[1].difficulty]]
    IN  SortDesc(joined, CompletedAtKey)

\* a variant that replaces the stored row of the same module
createRecommendationReplacing(rows, moduleId, score, reason) ==
    LET IsOther(row) == row.moduleId # moduleId
    IN  Append(SelectSeq(rows, IsOther),
               [moduleId |-> moduleId, score |-> score, reason |-> reason])

\* storage.createRecommendation
createRecommendation(rows, moduleId, score, reason) ==
    Append(rows, [moduleId |-> moduleId, score |-> score, reason |-> reason])

-----------------------------------------------------------------------------
(* RecommenderAgent.analyzeLearningPatterns *)

DefaultDifficulty == "intermediate"
DefaultDuration   == 3
MinDuration       == 1
MaxDuration       == 8
CompleteAt        == 100

RECURSIVE DifficultiesOf(_, _, _)
\* Object.keys(difficultyPerformance): in order of first appearance
DifficultiesOf(assessmentHistory, i, acc) ==
    IF i > Len(assessmentHistory) THEN acc
    ELSE LET d == assessmentHistory[i].difficulty
         IN  DifficultiesOf(assessmentHistory, i + 1,
                 IF \E k \in 1..Len(acc) : acc[k] = d THEN acc ELSE Append(acc, d))

ScoresOfDifficulty(assessmentHistory, d) ==
    LET Has(a) == a.difficulty = d
        idx == SelectSeqIdx(assessmentHistory, Has, 1)
    IN  [k \in 1..Len(idx) |-> [score |-> assessmentHistory[idx[k]].score]]

RECURSIVE BestDifficulty(_, _, _, _)
\* the forEach over the difficulty keys: best = [num, den, difficulty] with
\* bestAvg = num/den; "avg > bestAvg" is false for a NaN average
BestDifficulty(assessmentHistory, keys, i, best) ==
    IF i > Len(keys) THEN best
    ELSE LET scores == ScoresOfDifficulty(assessmentHistory, keys[i])
             sum    == SumScores(scores)
             better == IsNumber(sum) /\ sum.v * best.den > best.num * Len(scores)
         IN  BestDifficulty(assessmentHistory, keys, i + 1,
                 IF better
                 THEN [num |-> sum.v, den |-> Len(scores), difficulty |-> keys[i]]
                 ELSE best)

IsCompleted(p) == p.progress >= CompleteAt

RECURSIVE SumHours(_)
SumHours(rows) ==
    IF rows = <<>> THEN 0
    ELSE (rows[1].completedAt.v - rows[1].startedAt) + SumHours(Tail(rows))

analyzeLearningPatterns(assessmentHistory, moduleProgress) ==
    LET best == BestDifficulty(assessmentHistory,
                    DifficultiesOf(assessmentHistory, 1, <<>>), 1,
                    [num |-> 0, den |-> 1, difficulty |-> DefaultDifficulty])
        completedIdx == SelectSeqIdx(moduleProgress, IsCompleted, 1)
        completed == [k \in 1..Len(completedIdx) |-> moduleProgress[completedIdx[k]]]
        HasBoth(p) == IsNumber(p.completedAt)
        withIdx == SelectSeqIdx(completed, HasBoth, 1)
        withDuration == [k \in 1..Len(withIdx) |-> completed[withIdx[k]]]
        hours == SumHours(withDuration)
        \* Math.round(avgTimeToComplete || 3)
        rounded == IF Len(withDuration) = 0 \/ hours = 0 THEN DefaultDuration
                   ELSE MathRound(hours, Len(withDuration))
    IN  [preferredDifficulty |-> best.difficulty,
         preferredDuration   |->
             IF Len(moduleProgress) > 0
             THEN Max(MinDuration, Min(MaxDuration, rounded))
             ELSE DefaultDuration,
         completionRate      |->
             IF Len(moduleProgress) > 0
             THEN [num |-> Len(completed), den |-> Len(moduleProgress)]
             ELSE [num |-> 0, den |-> 1],
         avgTimeToComplete   |->
             IF Len(withDuration) > 0
             THEN [num |-> hours, den |-> Len(withDuration)]
             ELSE [num |-> 0, den |-> 1]]

\* the two fields createWeightedRecommendations reads
ScorerPatterns(p) ==
    [preferredDifficulty |-> p.preferredDifficulty,
     preferredDuration   |-> p.preferredDuration]

-----------------------------------------------------------------------------
(* The AI collaborator: a call either throws (network error, invalid JSON,   *)
(* missing array) or returns the parsed object.                              *)

AiFailure == [ok |-> FALSE, recommendations |-> <<>>]
AiRecs(recs) == [ok |-> TRUE, recommendations |-> recs]

ResumeFailure == [ok |-> FALSE, skills |-> <<>>]
ResumeSkills(skills) == [ok |-> TRUE, skills |-> skills]

-----------------------------------------------------------------------------
(* RecommenderAgent.generatePersonalizedRecommendations / refresh *)

RECURSIVE StoreAll(_, _, _)
\* the loop "for (const rec of recommendations) createRecommendation(...)"
StoreAll(rows, recs, i) ==
    IF i > Len(recs) THEN rows
    ELSE StoreAll(createRecommendation(rows, recs[i].moduleId, recs[i].score,
                                       recs[i].reason), recs, i + 1)

\* a variant that calls the AI a second time after a failure
generatePersonalizedRecommendationsRetrying(prof, uaRows, progress, recRows, aiResponse) ==
    IF ~prof.exists
    THEN [ok |-> FALSE, rows |-> recRows, aiCalls |-> 0]
    ELSE IF ~aiResponse.ok
    THEN [ok |-> FALSE, rows |-> recRows, aiCalls |-> 2]
    ELSE [ok |-> TRUE, aiCalls |-> 1,
          rows |-> StoreAll(recRows,
                      createWeightedRecommendations(aiResponse.recommendations,
                          identifySkillGaps(prof.skills),
                          ScorerPatterns(analyzeLearningPatterns(
                              getUserAssessments(uaRows), progress)),
                          AllModules), 1)]

\* [ok, rows, aiCalls]: the outcome, the recommendations table afterwards
\* and the number of AI calls made
generatePersonalizedRecommendations(prof, uaRows, progress, recRows, aiResponse) ==
    IF ~prof.exists
    THEN [ok |-> FALSE, rows |-> recRows, aiCalls |-> 0]
    ELSE IF ~aiResponse.ok
    THEN [ok |-> FALSE, rows |-> recRows, aiCalls |-> 1]
    ELSE LET assessmentHistory == getUserAssessments(uaRows)
             skillGaps == identifySkillGaps(prof.skills)
             learningPatterns == analyzeLearningPatterns(assessmentHistory, progress)
             recs == createWeightedRecommendations(aiResponse.recommendations,
                         skillGaps, ScorerPatterns(learningPatterns), AllModules)
         IN  [ok |-> TRUE, rows |-> StoreAll(recRows, recs, 1), aiCalls |-> 1]

-----------------------------------------------------------------------------
(* ProfileAgent *)

RECURSIVE PlainFrom(_, _, _)
\* ProfileAgent.generateRecommendations' loops: one row per suggestion and
\* matching module, scored priority / 100
PlainFrom(rows, aiRecommendations, i) ==
    IF i > Len(aiRecommendations) THEN rows
    ELSE LET rec == aiRecommendations[i]
             Hit(m) == ModuleMatches(m, rec.technology)
             idx == SelectSeqIdx(AllModules, Hit, 1)
             recs == [k \in 1..Len(idx) |->
                        [moduleId |-> AllModules[idx[k]].id,
                         score    |-> PriorityWeight * rec.priority,
                         reason   |-> [text |-> rec.reason, suffix |-> ""]]]
         IN  PlainFrom(StoreAll(rows, recs, 1), aiRecommendations, i + 1)

\* a variant that falls back to the first catalog module when the AI fails
generateRecommendationsWithFallback(prof, recRows, aiResponse) ==
    IF ~prof.exists THEN recRows
    ELSE IF ~aiResponse.ok
    THEN createRecommendation(recRows, AllModules[1].id, 0, [text |-> "", suffix |-> ""])
    ELSE PlainFrom(recRows, aiResponse.recommendations, 1)

\* ProfileAgent.generateRecommendations: errors are logged and swallowed
generateRecommendations(prof, recRows, aiResponse) ==
    IF ~prof.exists \/ ~aiResponse.ok THEN recRows
    ELSE PlainFrom(recRows, aiResponse.recommendations, 1)

\* existingSkills.findIndex(s => s.skill.toLowerCase() === technology.toLowerCase()),
\* 0 for -1
FindSkillIndex(skills, technology) ==
    LET hits == {i \in 1..Len(skills) :
                    toLowerCase(skills[i].skill) = toLowerCase(technology)}
    IN  IF hits = {} THEN 0 ELSE CHOOSE i \in hits : \A j \in hits : i <= j

\* the body of assessmentResults.forEach in updateSkillScores
ApplyResult(skills, result) ==
    LET k == FindSkillIndex(skills, result.technology)
    IN  IF k > 0 THEN [skills EXCEPT ![k].level = MathMax(skills[k].level, result.score)]
        ELSE Append(skills, [skill |-> result.technology, level |-> result.score])

\* storage.updateProfile(userId, {skills}): the jsonb column keeps what
\* JSON.stringify writes
StoredSkills(skills) ==
    [i \in 1..Len(skills) |->
        [skill |-> skills[i].skill, level |-> JsonRoundTrip(skills[i].level)]]

-----------------------------------------------------------------------------
(* AssessmentAgent.submitAssessment: scoring *)

\* question = questions.find(q => q.id === answer.questionId);
\* question && question.correctAnswer === answer.selectedAnswer
IsCorrect(assessment, answer) ==
    LET hits == {i \in 1..Len(assessment.questions) :
                    assessment.questions[i].id = answer.questionId}
    IN  /\ hits # {}
        /\ assessment.questions[CHOOSE i \in hits : \A j \in hits : i <= j].correctAnswer
              = answer.selectedAnswer

CountCorrect(assessment, answers) ==
    Cardinality({i \in 1..Len(answers) : IsCorrect(assessment, answers[i])})

\* Math.round((correctAnswers / totalQuestions) * 100); 0/0 is NaN
ScoreOf(correctAnswers, totalQuestions) ==
    IF totalQuestions = 0 THEN NaN
    ELSE Num(MathRound(100 * correctAnswers, totalQuestions))

-----------------------------------------------------------------------------
(* storage.updateModuleProgress / getUserModuleProgress *)

HoursPerDay == 24

\* the [00:00:00.000, 23:59:59.999] calendar day a timestamp falls in
DayOf(t) == t \div HoursPerDay

\* the select of updateModuleProgress: is there a row for (user, module)?
HasProgressRow(rows, moduleId) == \E i \in 1..Len(rows) : rows[i].moduleId = moduleId

\* a variant that needs progress above 100
CompletedAtForAbove(progress, t) == IF progress > CompleteAt THEN Num(t) ELSE Null

\* completedAt: progress >= 100 ? new Date() : null
CompletedAtFor(progress, t) == IF progress >= CompleteAt THEN Num(t) ELSE Null

\* a variant of the update branch that leaves lastAccessedAt alone
UpdateProgressRowsKeepingAccess(rows, moduleId, progress, t) ==
    [i \in 1..Len(rows) |->
        IF rows[i].moduleId = moduleId
        THEN [rows[i] EXCEPT !.progress = progress,
                             !.completedAt = CompletedAtFor(progress, t)]
        ELSE rows[i]]

\* the update branch: every row of (user, module) is rewritten
UpdateProgressRows(rows, moduleId, progress, t) ==
    [i \in 1..Len(rows) |->
        IF rows[i].moduleId = moduleId
        THEN [rows[i] EXCEPT !.progress = progress,
                             !.lastAccessedAt = t,
                             !.completedAt = CompletedAtFor(progress, t)]
        ELSE rows[i]]

\* the insert branch: startedAt and lastAccessedAt default to now()
InsertProgressRow(rows, moduleId, progress, t) ==
    Append(rows, [moduleId |-> moduleId, progress |-> progress, startedAt |-> t,
                  lastAccessedAt |-> t, completedAt |-> CompletedAtFor(progress, t)])

updateModuleProgress(rows, moduleId, progress, t) ==
    IF HasProgressRow(rows, moduleId)
    THEN UpdateProgressRows(rows, moduleId, progress, t)
    ELSE InsertProgressRow(rows, moduleId, progress, t)

LastAccessedKey(r) == r.lastAccessedAt

\* the rows joined with their module, most recently accessed first
getUserModuleProgress(rows) == SortDesc(rows, LastAccessedKey)

-----------------------------------------------------------------------------
(* TrackerAgent *)

StreakWalkDays    == 365
SevenDays         == 168    \* 7 * 24 hours
ThirtyDays        == 720    \* 30 * 24 hours
Milestones        == {1, 5, 10, 25, 50}
StreakMilestones  == {7, 14, 30, 60}

\* a variant that counts a record for every day from its last access on
HasActivityBy(moduleProgress, day) ==
    \E i \in 1..Len(moduleProgress) : DayOf(moduleProgress[i].lastAccessedAt) <= day

\* moduleProgress.some(p => dayStart <= lastAccessed <= dayEnd)
HasActivityOn(moduleProgress, day) ==
    \E i \in 1..Len(moduleProgress) : DayOf(moduleProgress[i].lastAccessedAt) = day

\* the iteration at which the for loop of calculateLearningStreak breaks, a
\* variant that also breaks on an inactive today (i = 0)
StreakBreakStrict(moduleProgress, today) ==
    IF \E i \in 0..(StreakWalkDays - 1) : ~HasActivityOn(moduleProgress, today - i)
    THEN CHOOSE i \in 0..(StreakWalkDays - 1) :
             /\ ~HasActivityOn(moduleProgress, today - i)
             /\ \A j \in 0..(i - 1) : HasActivityOn(moduleProgress, today - j)
    ELSE StreakWalkDays

\* the iteration at which the for loop of calculateLearningStreak breaks:
\* the first i > 0 whose day has no activity, or the end of the loop
StreakBreak(moduleProgress, today) ==
    IF \E i \in 1..(StreakWalkDays - 1) : ~HasActivityOn(moduleProgress, today - i)
    THEN CHOOSE i \in 1..(StreakWalkDays - 1) :
             /\ ~HasActivityOn(moduleProgress, today - i)
             /\ \A j \in 1..(i - 1) : HasActivityOn(moduleProgress, today - j)
    ELSE StreakWalkDays

\* streak++ on each iteration before the break whose day has activity
calculateLearningStreak(moduleProgress, t) ==
    IF Len(moduleProgress) = 0 THEN 0
    ELSE Cardinality({i \in 0..(StreakBreak(moduleProgress, DayOf(t)) - 1) :
                         HasActivityOn(moduleProgress, DayOf(t) - i)})

Alert(type, kind, n) == [type |-> type, kind |-> kind, n |-> n]

\* a variant that counts only progress above 100
CompletedCountAbove(userProgress) ==
    Cardinality({i \in 1..Len(userProgress) : userProgress[i].progress > CompleteAt})

CompletedCount(userProgress) ==
    Cardinality({i \in 1..Len(userProgress) : userProgress[i].progress >= CompleteAt})

\* a variant that fires once the count has reached a milestone
IsMilestoneReached(completedModules) ==
    \E m \in Milestones : completedModules >= m

\* milestones.includes(completedModules)
IsMilestone(completedModules) == completedModules \in Milestones

\* a variant that fires only above 100
CompletionAlertsAbove(progressPercentage) ==
    IF progressPercentage > CompleteAt
    THEN <<Alert("achievement", "completion", 0)>> ELSE <<>>

\* "Module completion achievement"
CompletionAlerts(progressPercentage) ==
    IF progressPercentage >= CompleteAt
    THEN <<Alert("achievement", "completion", 0)>> ELSE <<>>

\* "Milestone achievements", from the rows read after the write
MilestoneAlerts(userProgress) ==
    IF IsMilestone(CompletedCount(userProgress))
    THEN <<Alert("achievement", "milestone", CompletedCount(userProgress))>> ELSE <<>>

\* "Learning streak achievements"
StreakAlerts(moduleProgress, t) ==
    IF calculateLearningStreak(moduleProgress, t) \in StreakMilestones
    THEN <<Alert("achievement", "streak", calculateLearningStreak(moduleProgress, t))>>
    ELSE <<>>

\* a variant that looks for a milestone only when the call completes a module
checkForAchievementsOnCompletion(rows, progressPercentage, t) ==
    CompletionAlerts(progressPercentage)
    \o (IF progressPercentage >= CompleteAt
        THEN MilestoneAlerts(getUserModuleProgress(rows)) ELSE <<>>)
    \o StreakAlerts(getUserModuleProgress(rows), t)

checkForAchievements(rows, progressPercentage, t) ==
    CompletionAlerts(progressPercentage)
    \o MilestoneAlerts(getUserModuleProgress(rows))
    \o StreakAlerts(getUserModuleProgress(rows), t)

IsStagnant(p, t) ==
    p.progress > 0 /\ p.progress < CompleteAt /\ p.lastAccessedAt < t - SevenDays

StagnantCount(moduleProgress, t) ==
    Cardinality({i \in 1..Len(moduleProgress) : IsStagnant(moduleProgress[i], t)})

HasRecentActivity(moduleProgress, t) ==
    \E i \in 1..Len(moduleProgress) : moduleProgress[i].lastAccessedAt > t - SevenDays

\* a variant in which the inactivity check is the else branch of the first
ModuleStagnationAlertsElse(moduleProgress, t) ==
    IF StagnantCount(moduleProgress, t) > 0
    THEN <<Alert("stagnation", "stagnant", StagnantCount(moduleProgress, t))>>
    ELSE IF ~HasRecentActivity(moduleProgress, t) /\ Len(moduleProgress) > 0
         THEN <<Alert("stagnation", "inactive", 0)>> ELSE <<>>

\* the first two checks of checkForStagnation
ModuleStagnationAlerts(moduleProgress, t) ==
    (IF StagnantCount(moduleProgress, t) > 0
     THEN <<Alert("stagnation", "stagnant", StagnantCount(moduleProgress, t))>>
     ELSE <<>>)
    \o (IF ~HasRecentActivity(moduleProgress, t) /\ Len(moduleProgress) > 0
        THEN <<Alert("stagnation", "inactive", 0)>> ELSE <<>>)

\* "Check for assessment inactivity"
ReminderAlerts(assessmentHistory, t) ==
    IF Len(assessmentHistory) > 0
       /\ ~\E i \in 1..Len(assessmentHistory) :
              assessmentHistory[i].completedAt > t - ThirtyDays
    THEN <<Alert("reminder", "assessment", 0)>> ELSE <<>>

checkForStagnation(rows, uaRows, t) ==
    ModuleStagnationAlerts(getUserModuleProgress(rows), t)
    \o ReminderAlerts(getUserAssessments(uaRows), t)

-----------------------------------------------------------------------------
(* Values of the variables a specification does not use *)

NoProfile == [exists |-> FALSE, skills |-> <<>>]
NoCall    == [op |-> "none", ok |-> TRUE, error |-> "", score |-> Null,
              technology |-> <<>>, aiCalls |-> 0, created |-> <<>>,
              aiFailed |-> FALSE, args |-> <<>>]

IdleAnalytic ==
    /\ argSkills = <<>> /\ argAiRecs = <<>>
    /\ argPatterns = [preferredDifficulty |-> "intermediate", preferredDuration |-> 3]
    /\ retGaps = <<>> /\ retRecs = <<>>
IdleTrend == argHistory = <<>> /\ retTrend = <<>> /\ retStreak = <<>>
IdleStore == profile = NoProfile /\ recommendations = <<>> /\ userAssessments = <<>>
IdleTrack == progressRows = <<>> /\ alerts = <<>> /\ now = 0 /\ touchDays = {}
             /\ procs = <<>>
IdleCalls == calls = 0 /\ lastCall = NoCall
IdleHack  == hackathons = <<>> /\ hackathonParticipants = <<>>

-----------------------------------------------------------------------------
(* SpecScorer: identifySkillGaps and createWeightedRecommendations applied   *)
(* to bounded inputs, in the order generatePersonalizedRecommendations       *)
(* calls them.                                                                *)

SkillNameInputs == {str_js, str_Go}
LevelInputs     == {0, 40, 70}
TechInputs      == {str_JS, str_j, str_gojs, str_r}
PriorityInputs  == {-50, 60, 100, 150}
PatternInputs   ==
    { [preferredDifficulty |-> "intermediate", preferredDuration |-> 3],
      [preferredDifficulty |-> "beginner", preferredDuration |-> 8] }

SkillInputs == {[skill |-> n, level |-> Num(l)] : n \in SkillNameInputs, l \in LevelInputs}
AiRecInputs == {[technology |-> t, reason |-> "r", priority |-> p] :
                   t \in TechInputs, p \in PriorityInputs}

InitScorer ==
    /\ argSkills \in SeqsUpTo(SkillInputs, MaxSkills)
    /\ argAiRecs \in SeqsUpTo(AiRecInputs, MaxSuggestions)
    /\ argPatterns \in PatternInputs
    /\ retGaps = <<>> /\ retRecs = <<>>
    /\ IdleTrend /\ IdleStore /\ IdleTrack /\ IdleCalls /\ IdleHack

CallIdentifySkillGaps ==
    /\ retGaps = <<>>
    /\ retGaps' = <<identifySkillGaps(argSkills)>>
    /\ UNCHANGED <<argSkills, argAiRecs, argPatterns, retRecs>>
    /\ UNCHANGED <<trendVars, storeVars, trackVars, calls, lastCall, hackVars>>

CallCreateWeightedRecommendations ==
    /\ retGaps # <<>> /\ retRecs = <<>>
    /\ retRecs' = <<createWeightedRecommendations(argAiRecs, retGaps[1],
                                                  argPatterns, AllModules)>>
    /\ UNCHANGED <<argSkills, argAiRecs, argPatterns, retGaps>>
    /\ UNCHANGED <<trendVars, storeVars, trackVars, calls, lastCall, hackVars>>

NextScorer == CallIdentifySkillGaps \/ CallCreateWeightedRecommendations

SpecScorer == InitScorer /\ [][NextScorer]_vars

-----------------------------------------------------------------------------
(* SpecScorerPairs: the same two calls for suggestion lists in which several *)
(* suggestions match the same module and later suggestions outscore earlier  *)
(* ones.                                                                     *)

MaxPairSuggestions == 2

PairSkillInputs == { <<>>, <<[skill |-> str_js, level |-> Num(40)]>> }

PairAiRecInputs ==
    {[technology |-> t, reason |-> "r", priority |-> p] :
        t \in {str_JS, str_gojs, str_r}, p \in {10, 60}}

InitScorerPairs ==
    /\ argSkills \in PairSkillInputs
    /\ argAiRecs \in SeqsUpTo(PairAiRecInputs, MaxPairSuggestions)
    /\ argPatterns \in PatternInputs
    /\ retGaps = <<>> /\ retRecs = <<>>
    /\ IdleTrend /\ IdleStore /\ IdleTrack /\ IdleCalls /\ IdleHack

NextScorerPairs == CallIdentifySkillGaps \/ CallCreateWeightedRecommendations

SpecScorerPairs == InitScorerPairs /\ [][NextScorerPairs]_vars

-----------------------------------------------------------------------------
(* Spec: the request handlers over the profile, the assessment results and   *)
(* the recommendations of the one (mock-session) user, one request at a      *)
(* time.  Requests are at least an hour apart.                               *)

\* suggestions the AI may make: in range, above 100 and below 0
StoreAiRecInputs ==
    { [technology |-> str_JS, reason |-> "r", priority |-> 60],
      [technology |-> str_Go, reason |-> "r", priority |-> 150],
      [technology |-> str_Go, reason |-> "r", priority |-> -50] }

\* what aiClient.generateRecommendations may answer
RecResponses ==
    {AiFailure} \cup {AiRecs(r) : r \in SeqsUpTo(StoreAiRecInputs, MaxSuggestions)}

\* what aiClient.parseResume may answer
ResumeResponses ==
    { ResumeFailure,
      ResumeSkills(<< >>),
      ResumeSkills(<< [skill |-> str_js, level |-> Num(40)] >>),
      ResumeSkills(<< [skill |-> str_JS, level |-> Num(150)] >>),
      ResumeSkills(<< [skill |-> str_js, level |-> Num(85)],
                      [skill |-> str_JS, level |-> Num(-5)] >>) }

AssessmentIdInputs == {"a1", "a2", "a3", "a9"}
\* answers: right and wrong ones, and one naming an unknown question
AnswerInputs ==
    SeqsUpTo({ [questionId |-> "q1", selectedAnswer |-> 0],
               [questionId |-> "q1", selectedAnswer |-> 1],
               [questionId |-> "q2", selectedAnswer |-> 1],
               [questionId |-> "q9", selectedAnswer |-> 0] }, MaxAnswers)

\* the user's module-progress rows, which these handlers only read
ProgressInputs ==
    { << >>,
      << [moduleId |-> "m3", progress |-> 100, startedAt |-> 0,
          lastAccessedAt |-> 5, completedAt |-> Num(5)] >> }

Init ==
    /\ profile = NoProfile
    /\ recommendations = <<>>
    /\ userAssessments = <<>>
    /\ progressRows \in ProgressInputs
    /\ alerts = <<>> /\ now = 0 /\ touchDays = {} /\ procs = <<>>
    /\ IdleAnalytic /\ IdleTrend /\ IdleCalls /\ IdleHack

Outcome(op, ok, error, score, technology, aiCalls) ==
    [op |-> op, ok |-> ok, error |-> error, score |-> score,
     technology |-> technology, aiCalls |-> aiCalls, created |-> <<>>,
     aiFailed |-> FALSE, args |-> <<>>]

\* POST /api/recommendations/refresh
RefreshRecommendations ==
    \E aiResponse \in RecResponses :
        LET r == generatePersonalizedRecommendations(profile, userAssessments,
                     progressRows, recommendations, aiResponse)
        IN  /\ calls < MaxCalls
            /\ Len(r.rows) <= MaxRecRows
            /\ recommendations' = r.rows
            /\ lastCall' = [Outcome("refreshRecommendations", r.ok,
                               IF r.ok THEN ""
                               ELSE "Failed to generate personalized recommendations",
                               Null, <<>>, r.aiCalls)
                             EXCEPT !.aiFailed = r.aiCalls > 0 /\ ~aiResponse.ok]
            /\ calls' = calls + 1 /\ now' = now + 1
            /\ UNCHANGED <<profile, userAssessments, progressRows, alerts, touchDays, procs>>
            /\ UNCHANGED <<analyticVars, trendVars, hackVars>>

\* POST /api/profile/resume
ParseAndStoreResumeOf(parsedData, aiResponse, maxCalls) ==
        /\ calls < maxCalls
        /\ IF ~parsedData.ok
           THEN /\ UNCHANGED <<profile, recommendations>>
                /\ lastCall' = Outcome("parseAndStoreResume", FALSE,
                                   "Failed to process resume", Null, <<>>, 1)
           ELSE LET stored == [exists |-> TRUE, skills |-> StoredSkills(parsedData.skills)]
                    rows   == generateRecommendations(stored, recommendations, aiResponse)
                IN  /\ Len(rows) <= MaxRecRows
                    /\ profile' = stored
                    /\ recommendations' = rows
                    /\ lastCall' = [Outcome("parseAndStoreResume", TRUE, "", Null,
                                       <<>>, 2)
                                     EXCEPT !.aiFailed = ~aiResponse.ok]
        /\ calls' = calls + 1 /\ now' = now + 1
        /\ UNCHANGED <<userAssessments, progressRows, alerts, touchDays, procs>>
        /\ UNCHANGED <<analyticVars, trendVars, hackVars>>

ParseAndStoreResume ==
    \E parsedData \in ResumeResponses : \E aiResponse \in RecResponses :
        ParseAndStoreResumeOf(parsedData, aiResponse, MaxCalls)

\* ProfileAgent.updateSkillScores, given that the profile exists
updateSkillScores(prof, assessmentResult) ==
    [exists |-> TRUE,
     skills |-> StoredSkills(ApplyResult(prof.skills, assessmentResult))]

\* POST /api/assessments/:id/submit
SubmitAssessmentOf(assessmentId, answers, aiResponse, maxCalls) ==
        LET found == FindAssessment(assessmentId)
        IN  /\ calls < maxCalls
            /\ IF found = <<>>
               THEN /\ UNCHANGED <<profile, recommendations, userAssessments>>
                    /\ lastCall' = Outcome("submitAssessment", FALSE,
                                       "Assessment not found", Null, <<>>, 0)
               ELSE LET assessment     == found[1]
                        totalQuestions == Len(assessment.questions)
                        correctAnswers == CountCorrect(assessment, answers)
                        score          == ScoreOf(correctAnswers, totalQuestions)
                    IN  \* storage.createUserAssessment comes first
                        /\ userAssessments' = Append(userAssessments,
                               [assessmentId   |-> assessmentId,
                                score          |-> score,
                                correctAnswers |-> correctAnswers,
                                totalQuestions |-> totalQuestions,
                                completedAt    |-> now])
                        /\ IF ~profile.exists
                           THEN /\ UNCHANGED <<profile, recommendations>>
                                /\ lastCall' = Outcome("submitAssessment", FALSE,
                                                   "Profile not found", score,
                                                   assessment.technology, 0)
                           ELSE LET updated == updateSkillScores(profile,
                                                   [technology |-> assessment.technology,
                                                    score      |-> score])
                                    rows    == generateRecommendations(updated,
                                                   recommendations, aiResponse)
                                IN  /\ Len(rows) <= MaxRecRows
                                    /\ profile' = updated
                                    /\ recommendations' = rows
                                    /\ lastCall' = [Outcome("submitAssessment", TRUE, "",
                                                       score, assessment.technology, 1)
                                                     EXCEPT !.aiFailed = ~aiResponse.ok]
            /\ calls' = calls + 1 /\ now' = now + 1
            /\ UNCHANGED <<progressRows, alerts, touchDays, procs>>
            /\ UNCHANGED <<analyticVars, trendVars, hackVars>>

SubmitAssessment ==
    \E assessmentId \in AssessmentIdInputs : \E answers \in AnswerInputs :
    \E aiResponse \in RecResponses :
        SubmitAssessmentOf(assessmentId, answers, aiResponse, MaxCalls)

Next == RefreshRecommendations \/ ParseAndStoreResume \/ SubmitAssessment

Spec == Init /\ [][Next]_vars

-----------------------------------------------------------------------------
(* SpecRefresh: POST /api/recommendations/refresh repeated, for a user with  *)
(* no profile or with a profile a resume upload stored, with or without an   *)
(* assessment taken and a module completed.                                  *)

RefreshProfileInputs ==
    {NoProfile} \cup
    {[exists |-> TRUE, skills |-> StoredSkills(parsedData.skills)] :
        parsedData \in ResumeResponses \ {ResumeFailure}}

RefreshAssessmentInputs ==
    { <<>>,
      <<[assessmentId |-> "a1", score |-> Num(50), correctAnswers |-> 1,
         totalQuestions |-> 2, completedAt |-> 0]>> }

InitRefresh ==
    /\ profile \in RefreshProfileInputs
    /\ recommendations = <<>>
    /\ userAssessments \in RefreshAssessmentInputs
    /\ progressRows \in ProgressInputs
    /\ alerts = <<>> /\ now = 2 /\ touchDays = {} /\ procs = <<>>
    /\ IdleAnalytic /\ IdleTrend /\ IdleCalls /\ IdleHack

NextRefresh == RefreshRecommendations

SpecRefresh == InitRefresh /\ [][NextRefresh]_vars

-----------------------------------------------------------------------------
(* SpecSubmit: POST /api/assessments/:id/submit and POST /api/profile/resume *)
(* for a user with no profile or with a stored one, with a few answer lists  *)
(* and an AI that fails or suggests one technology.                          *)

MaxSubmitCalls == 2

SubmitAnswerInputs ==
    { <<>>,
      <<[questionId |-> "q1", selectedAnswer |-> 0]>>,
      <<[questionId |-> "q1", selectedAnswer |-> 0],
        [questionId |-> "q2", selectedAnswer |-> 1]>>,
      <<[questionId |-> "q9", selectedAnswer |-> 0]>> }

SubmitRecResponses ==
    {AiFailure, AiRecs(<<[technology |-> str_JS, reason |-> "r", priority |-> 60]>>)}

SubmitResumeResponses ==
    {ResumeFailure, ResumeSkills(<< [skill |-> str_js, level |-> Num(40)] >>)}

InitSubmit ==
    /\ profile \in RefreshProfileInputs
    /\ recommendations = <<>>
    /\ userAssessments = <<>>
    /\ progressRows \in ProgressInputs
    /\ alerts = <<>> /\ now = 0 /\ touchDays = {} /\ procs = <<>>
    /\ IdleAnalytic /\ IdleTrend /\ IdleCalls /\ IdleHack

SubmitSome ==
    \E assessmentId \in AssessmentIdInputs : \E answers \in SubmitAnswerInputs :
    \E aiResponse \in SubmitRecResponses :
        SubmitAssessmentOf(assessmentId, answers, aiResponse, MaxSubmitCalls)

ParseSome ==
    \E parsedData \in SubmitResumeResponses : \E aiResponse \in SubmitRecResponses :
        ParseAndStoreResumeOf(parsedData, aiResponse, MaxSubmitCalls)

NextSubmit == SubmitSome \/ ParseSome

SpecSubmit == InitSubmit /\ [][NextSubmit]_vars

-----------------------------------------------------------------------------
(* SpecTrend: calculateSkillProgression applied to bounded histories, which  *)
(* storage.getUserAssessments returns newest first.  A history is drawn as   *)
(* its records from newest to oldest, each with the time that passed since   *)
(* the next older one (0: the same completedAt).                             *)

TrendTechInputs  == {str_JS, str_Go}
TrendScoreInputs == {50, 55, 60}
TrendDateInputs  == {0, 1}

HistoryInputs ==
    {[technology |-> t, score |-> Num(s), since |-> d] :
        t \in TrendTechInputs, s \in TrendScoreInputs, d \in TrendDateInputs}

RECURSIVE SumSince(_, _)
\* the completedAt of record i: the times between it and the oldest record
SumSince(h, i) == IF i > Len(h) THEN 0 ELSE h[i].since + SumSince(h, i + 1)

DatedHistory(h) ==
    [i \in 1..Len(h) |-> [technology  |-> h[i].technology,
                          score       |-> h[i].score,
                          completedAt |-> SumSince(h, i)]]

NewestFirst(h) == \A i \in 1..(Len(h) - 1) : h[i].completedAt >= h[i + 1].completedAt

InitTrend ==
    /\ argHistory \in {h \in {DatedHistory(g) : g \in SeqsUpTo(HistoryInputs, MaxHistory)} :
                           NewestFirst(h)}
    /\ retTrend = <<>> /\ retStreak = <<>>
    /\ IdleAnalytic /\ IdleStore /\ IdleTrack /\ IdleCalls /\ IdleHack

CallCalculateSkillProgression ==
    /\ retTrend = <<>>
    /\ retTrend' = <<calculateSkillProgression(argHistory)>>
    /\ UNCHANGED <<argHistory, retStreak, analyticVars, storeVars, trackVars, calls, lastCall, hackVars>>

NextTrend == CallCalculateSkillProgression

SpecTrend == InitTrend /\ [][NextTrend]_vars

-----------------------------------------------------------------------------
(* SpecStreak: calculateLearningStreak applied to a fixed set of progress    *)
(* records and a fixed clock.  Besides the short histories there is one      *)
(* long history, a record on each of StreakWalkDays + 1 consecutive days.    *)

MaxStreakRows == 3
MaxStreakDay  == 4

LongDays == StreakWalkDays + 1

\* first and last hour of each day of the window
StreakTimes == {d * HoursPerDay + h : d \in 0..MaxStreakDay, h \in {0, HoursPerDay - 1}}

ProgressRowAt(moduleId, t) ==
    [moduleId |-> moduleId, progress |-> 50, startedAt |-> t,
     lastAccessedAt |-> t, completedAt |-> Null]

ShortHistories ==
    {[i \in 1..Len(ts) |-> ProgressRowAt(AllModules[i].id, ts[i])] :
        ts \in SeqsUpTo(StreakTimes, MaxStreakRows)}

LongHistory == [i \in 1..LongDays |-> ProgressRowAt(ToString(i), (i - 1) * HoursPerDay)]

InitStreak ==
    /\ \/ /\ progressRows \in ShortHistories
          /\ now \in {MaxStreakDay * HoursPerDay + 12, (MaxStreakDay + 1) * HoursPerDay}
       \/ /\ progressRows = LongHistory
          /\ now \in {(LongDays - 1) * HoursPerDay + 12, LongDays * HoursPerDay + 12}
    /\ alerts = <<>> /\ touchDays = {} /\ procs = <<>>
    /\ argHistory = <<>> /\ retTrend = <<>> /\ retStreak = <<>>
    /\ IdleAnalytic /\ IdleStore /\ IdleCalls /\ IdleHack

CallCalculateLearningStreak ==
    /\ retStreak = <<>>
    /\ retStreak' = <<calculateLearningStreak(getUserModuleProgress(progressRows), now)>>
    /\ UNCHANGED <<argHistory, retTrend, analyticVars, storeVars, trackVars, calls, lastCall, hackVars>>

NextStreak == CallCalculateLearningStreak

SpecStreak == InitStreak /\ [][NextStreak]_vars

-----------------------------------------------------------------------------
(* SpecTracker: POST /api/modules/:id/progress one request at a time, with   *)
(* the clock advancing a day at a time between requests, and                 *)
(* checkForStagnation also called on its own.                                *)

MaxTrackerCalls == 3
MaxDays         == 8

TrackerModuleInputs   == {"m1", "m2", "m9"}
TrackerProgressInputs == {0, 50, 100}

\* no assessment taken, or one taken 25 days before the clock starts
TrackerAssessmentInputs ==
    { <<>>,
      <<[assessmentId |-> "a1", score |-> Num(50), correctAnswers |-> 1,
         totalQuestions |-> 2, completedAt |-> 0 - 600]>> }

InitTracker ==
    /\ progressRows = <<>> /\ alerts = <<>> /\ now = 0 /\ touchDays = {}
    /\ procs = <<>>
    /\ profile = NoProfile /\ recommendations = <<>>
    /\ userAssessments \in TrackerAssessmentInputs
    /\ IdleAnalytic /\ IdleTrend /\ IdleCalls /\ IdleHack

TrackerOutcome(op, ok, error, created) ==
    [Outcome(op, ok, error, Null, <<>>, 0) EXCEPT !.created = created]

\* TrackerAgent.updateProgress
UpdateProgress ==
    \E moduleId \in TrackerModuleInputs : \E progressPercentage \in TrackerProgressInputs :
        /\ calls < MaxTrackerCalls
        /\ IF moduleId \notin ModuleIds
           THEN \* the insert violates the foreign key on module_id
                /\ UNCHANGED <<progressRows, alerts, touchDays>>
                /\ lastCall' = [TrackerOutcome("updateProgress", FALSE,
                                   "Failed to update learning progress", <<>>)
                                 EXCEPT !.args = <<moduleId, progressPercentage>>]
           ELSE LET rows    == updateModuleProgress(progressRows, moduleId,
                                                    progressPercentage, now)
                    created == checkForAchievements(rows, progressPercentage, now)
                               \o checkForStagnation(rows, userAssessments, now)
                IN  /\ progressRows' = rows
                    /\ alerts' = alerts \o created
                    /\ touchDays' = touchDays \cup {DayOf(now)}
                    /\ lastCall' = [TrackerOutcome("updateProgress", TRUE, "", created)
                                     EXCEPT !.args = <<moduleId, progressPercentage>>]
        /\ calls' = calls + 1
        /\ UNCHANGED <<now, procs, analyticVars, trendVars, storeVars, hackVars>>

\* TrackerAgent.checkForStagnation called on its own
CheckForStagnation ==
    LET created == checkForStagnation(progressRows, userAssessments, now)
    IN  /\ calls < MaxTrackerCalls
        /\ alerts' = alerts \o created
        /\ lastCall' = TrackerOutcome("checkForStagnation", TRUE, "", created)
        /\ calls' = calls + 1
        /\ UNCHANGED <<progressRows, now, touchDays, procs>>
        /\ UNCHANGED <<analyticVars, trendVars, storeVars, hackVars>>

TickInputs == {HoursPerDay}

\* a day passes
Tick ==
    \E hours \in TickInputs :
    /\ now + hours <= MaxDays * HoursPerDay
    /\ now' = now + hours
    /\ UNCHANGED <<progressRows, alerts, touchDays, procs, calls, lastCall>>
    /\ UNCHANGED <<analyticVars, trendVars, storeVars, hackVars>>

NextTracker == UpdateProgress \/ CheckForStagnation \/ Tick

SpecTracker == InitTracker /\ [][NextTracker]_vars

-----------------------------------------------------------------------------
(* SpecTrackerConc: overlapping POST /api/modules/:id/progress requests of   *)
(* the one user.  A request is interrupted only at an await: between the     *)
(* select and the write of storage.updateModuleProgress, and before each     *)
(* read of checkForAchievements and checkForStagnation.  An alert insert is  *)
(* taken together with the read that decided it.  The requests overlap       *)
(* within one hour, so the clock stands still.                               *)

MaxConcCalls == 3

Procs == {"p1", "p2"}

ConcModuleInputs   == {"m5", "m6"}
ConcProgressInputs == {50, 100}

\* the number of modules the user completed before the requests arrive
InitialCompletedInputs == {0, 4}

CompletedRows(k) ==
    [i \in 1..k |-> [moduleId |-> AllModules[i].id, progress |-> 100, startedAt |-> 0,
                     lastAccessedAt |-> 0, completedAt |-> Num(0)]]

\* a request's position and locals; before and atCheck record the
\* completed-module count just before its write and at its milestone check,
\* pending the requests that had written and not yet checked when this one
\* checked, raced whether this request was pending for another one that is
\* still running
IdleProc ==
    [pc |-> "idle", moduleId |-> "", progress |-> 0, existing |-> FALSE,
     before |-> 0, atCheck |-> 0, created |-> <<>>, pending |-> {}, raced |-> FALSE]

InitTrackerConc ==
    /\ \E k \in InitialCompletedInputs :
          /\ progressRows = CompletedRows(k)
          /\ touchDays = IF k > 0 THEN {0} ELSE {}
    /\ alerts = <<>> /\ now = HoursPerDay
    /\ procs = [p \in Procs |-> IdleProc]
    /\ IdleStore /\ IdleAnalytic /\ IdleTrend /\ IdleCalls /\ IdleHack

\* the route handler calls trackerAgent.updateProgress
BeginUpdate(p) ==
    \E moduleId \in ConcModuleInputs : \E progressPercentage \in ConcProgressInputs :
        /\ procs[p].pc = "idle"
        /\ calls < MaxConcCalls
        /\ procs' = [procs EXCEPT ![p] = [IdleProc EXCEPT !.pc = "select",
                                                         !.moduleId = moduleId,
                                                         !.progress = progressPercentage]]
        /\ calls' = calls + 1
        /\ UNCHANGED <<progressRows, alerts, now, touchDays, lastCall>>
        /\ UNCHANGED <<analyticVars, trendVars, storeVars, hackVars>>

\* updateModuleProgress: const existing = await db.select()...
SelectExisting(p) ==
    /\ procs[p].pc = "select"
    /\ procs' = [procs EXCEPT ![p].pc = "write",
                              ![p].existing = HasProgressRow(progressRows, procs[p].moduleId)]
    /\ UNCHANGED <<progressRows, alerts, now, touchDays, calls, lastCall>>
    /\ UNCHANGED <<analyticVars, trendVars, storeVars, hackVars>>

\* updateModuleProgress: the update or the insert the select decided
WriteProgress(p) ==
    /\ procs[p].pc = "write"
    /\ progressRows' =
          IF procs[p].existing
          THEN UpdateProgressRows(progressRows, procs[p].moduleId, procs[p].progress, now)
          ELSE InsertProgressRow(progressRows, procs[p].moduleId, procs[p].progress, now)
    /\ touchDays' = touchDays \cup {DayOf(now)}
    /\ procs' = [procs EXCEPT ![p].pc = "achievements",
                              ![p].before = CompletedCount(progressRows)]
    /\ UNCHANGED <<alerts, now, calls, lastCall>>
    /\ UNCHANGED <<analyticVars, trendVars, storeVars, hackVars>>

\* checkForAchievements: the completion alert, then the read of the rows and
\* the milestone alert
CheckMilestone(p) ==
    LET created == CompletionAlerts(procs[p].progress)
                   \o MilestoneAlerts(getUserModuleProgress(progressRows))
    IN  /\ procs[p].pc = "achievements"
        /\ alerts' = alerts \o created
        /\ procs' = [q \in Procs |->
                        IF q = p
                        THEN [procs[p] EXCEPT
                                 !.pc = "streak",
                                 !.atCheck = CompletedCount(progressRows),
                                 !.created = created,
                                 !.pending = {r \in Procs \ {p} :
                                                 procs[r].pc = "achievements"},
                                 !.raced = \E r \in Procs \ {p} :
                                              /\ procs[r].pc \in {"streak", "stagnation"}
                                              /\ p \in procs[r].pending]
                        ELSE [procs[q] EXCEPT !.pending = @ \ {p}]]
        /\ UNCHANGED <<progressRows, now, touchDays, calls, lastCall>>
        /\ UNCHANGED <<analyticVars, trendVars, storeVars, hackVars>>

\* checkForAchievements: calculateLearningStreak and the streak alert
CheckStreak(p) ==
    LET created == StreakAlerts(getUserModuleProgress(progressRows), now)
    IN  /\ procs[p].pc = "streak"
        /\ alerts' = alerts \o created
        /\ procs' = [procs EXCEPT ![p].pc = "stagnation",
                                  ![p].created = procs[p].created \o created]
        /\ UNCHANGED <<progressRows, now, touchDays, calls, lastCall>>
        /\ UNCHANGED <<analyticVars, trendVars, storeVars, hackVars>>

\* checkForStagnation, after which updateProgress returns
FinishUpdate(p) ==
    LET created == checkForStagnation(progressRows, userAssessments, now)
    IN  /\ procs[p].pc = "stagnation"
        /\ alerts' = alerts \o created
        /\ procs' = [procs EXCEPT ![p].pc = "idle",
                                  ![p].created = procs[p].created \o created]
        /\ lastCall' = TrackerOutcome("updateProgress", TRUE, "",
                                      procs[p].created \o created)
        /\ UNCHANGED <<progressRows, now, touchDays, calls>>
        /\ UNCHANGED <<analyticVars, trendVars, storeVars, hackVars>>

NextTrackerConc ==
    \E p \in Procs :
        \/ BeginUpdate(p)
        \/ SelectExisting(p)
        \/ WriteProgress(p)
        \/ CheckMilestone(p)
        \/ CheckStreak(p)
        \/ FinishUpdate(p)

SpecTrackerConc == InitTrackerConc /\ [][NextTrackerConc]_vars

-----------------------------------------------------------------------------
(* SpecSkillsConc: overlapping POST /api/assessments/:id/submit requests of  *)
(* the one user, who has a profile.  A request is interrupted at its awaits: *)
(* after storage.createUserAssessment, between storage.getProfile and        *)
(* storage.updateProfile in updateSkillScores, and before the                *)
(* recommendation step.  The requests overlap within one hour.               *)

MaxSkillCalls == 2

SkillAssessmentInputs == {"a1", "a2"}

SkillProfileInputs ==
    { [exists |-> TRUE, skills |-> << >>],
      [exists |-> TRUE, skills |-> << [skill |-> str_js, level |-> Num(40)] >>] }

\* a request's position and locals: the result it reports to
\* updateSkillScores and the skills array it read
IdleSubmit ==
    [pc |-> "idle", technology |-> <<>>, score |-> Null, existingSkills |-> <<>>]

InitSkillsConc ==
    /\ profile \in SkillProfileInputs
    /\ recommendations = <<>> /\ userAssessments = <<>>
    /\ progressRows = <<>> /\ alerts = <<>> /\ now = 0 /\ touchDays = {}
    /\ procs = [p \in Procs |-> IdleSubmit]
    /\ IdleAnalytic /\ IdleTrend /\ IdleCalls /\ IdleHack

\* submitAssessment up to "await storage.createUserAssessment(...)"
BeginSubmit(p) ==
    \E assessmentId \in SkillAssessmentInputs : \E answers \in SubmitAnswerInputs :
        LET assessment     == FindAssessment(assessmentId)[1]
            totalQuestions == Len(assessment.questions)
            correctAnswers == CountCorrect(assessment, answers)
            score          == ScoreOf(correctAnswers, totalQuestions)
        IN  /\ procs[p].pc = "idle"
            /\ calls < MaxSkillCalls
            /\ userAssessments' = Append(userAssessments,
                   [assessmentId   |-> assessmentId,
                    score          |-> score,
                    correctAnswers |-> correctAnswers,
                    totalQuestions |-> totalQuestions,
                    completedAt    |-> now])
            /\ procs' = [procs EXCEPT ![p] = [IdleSubmit EXCEPT
                                                 !.pc = "getProfile",
                                                 !.technology = assessment.technology,
                                                 !.score = score]]
            /\ calls' = calls + 1
            /\ UNCHANGED <<profile, recommendations, progressRows, alerts, now,
                           touchDays, lastCall>>
            /\ UNCHANGED <<analyticVars, trendVars, hackVars>>

\* updateSkillScores: const profile = await storage.getProfile(userId)
ReadProfile(p) ==
    /\ procs[p].pc = "getProfile"
    /\ procs' = [procs EXCEPT ![p].pc = "updateProfile",
                              ![p].existingSkills = profile.skills]
    /\ UNCHANGED <<profile, recommendations, userAssessments, progressRows, alerts,
                   now, touchDays, calls, lastCall>>
    /\ UNCHANGED <<analyticVars, trendVars, hackVars>>

\* updateSkillScores: the forEach over the skills read and
\* await storage.updateProfile(userId, {skills: existingSkills})
WriteProfile(p) ==
    /\ procs[p].pc = "updateProfile"
    /\ profile' = [exists |-> TRUE,
                   skills |-> StoredSkills(ApplyResult(procs[p].existingSkills,
                                  [technology |-> procs[p].technology,
                                   score      |-> procs[p].score]))]
    /\ procs' = [procs EXCEPT ![p].pc = "recommend"]
    /\ UNCHANGED <<recommendations, userAssessments, progressRows, alerts,
                   now, touchDays, calls, lastCall>>
    /\ UNCHANGED <<analyticVars, trendVars, hackVars>>

\* ProfileAgent.generateRecommendations, after which submitAssessment returns
FinishSubmit(p) ==
    \E aiResponse \in SubmitRecResponses :
        LET rows == generateRecommendations(profile, recommendations, aiResponse)
        IN  /\ procs[p].pc = "recommend"
            /\ recommendations' = rows
            /\ procs' = [procs EXCEPT ![p] = IdleSubmit]
            /\ lastCall' = [Outcome("submitAssessment", TRUE, "", procs[p].score,
                                    procs[p].technology, 1)
                            EXCEPT !.aiFailed = ~aiResponse.ok]
            /\ UNCHANGED <<profile, userAssessments, progressRows, alerts,
                           now, touchDays, calls>>
            /\ UNCHANGED <<analyticVars, trendVars, hackVars>>

NextSkillsConc ==
    \E p \in Procs :
        \/ BeginSubmit(p)
        \/ ReadProfile(p)
        \/ WriteProfile(p)
        \/ FinishSubmit(p)

SpecSkillsConc == InitSkillsConc /\ [][NextSkillsConc]_vars

-----------------------------------------------------------------------------
(* SpecJoin: joinHackathon requests of two clients interleaved at their      *)
(* awaits (hackathonAgent.joinHackathon, storage.joinHackathon).             *)

MaxJoinCalls == 3

HackathonIdInputs   == {"h1", "h9"}
JoinUserInputs      == {"u1", "u2"}
MaxParticipantsInputs == {Null, Num(1), Num(2)}
DeadlineInputs      == {0, 9}

IdleJoin == [pc |-> "idle", hackathonId |-> "", userId |-> ""]

\* hackathons.find(h => h.id === hackathonId): <<row>>, <<>> when undefined
FindHackathon(rows, hackathonId) ==
    SelectSeq(rows, LAMBDA h : h.id = hackathonId)

\* hackathon.maxParticipants && (hackathon.currentParticipants ?? 0) >= hackathon.maxParticipants
IsFull(hackathon) ==
    /\ IsNumber(hackathon.maxParticipants)
    /\ hackathon.maxParticipants.v # 0
    /\ ToNumber(hackathon.currentParticipants) >= hackathon.maxParticipants.v

\* the rows of one hackathon in hackathon_participants
ParticipantsOf(hackathonId) ==
    SelectSeq(hackathonParticipants, LAMBDA r : r.hackathonId = hackathonId)

InitJoin ==
    /\ \E maxParticipants \in MaxParticipantsInputs : \E deadline \in DeadlineInputs :
          hackathons = <<[id |-> "h1", maxParticipants |-> maxParticipants,
                          currentParticipants |-> Num(0),
                          registrationDeadline |-> deadline]>>
    /\ hackathonParticipants = <<>>
    /\ progressRows = <<>> /\ alerts = <<>> /\ now = 1 /\ touchDays = {}
    /\ procs = [p \in Procs |-> IdleJoin]
    /\ IdleStore /\ IdleAnalytic /\ IdleTrend /\ IdleCalls

\* joinHackathon up to "await storage.joinHackathon(...)": the hackathon row
\* is read once and the three checks run on that copy
CheckHackathon(p) ==
    \E hackathonId \in HackathonIdInputs : \E userId \in JoinUserInputs :
        LET found == FindHackathon(hackathons, hackathonId)
            error == IF found = <<>> THEN "Hackathon not found"
                     ELSE IF now > found[1].registrationDeadline
                          THEN "Registration deadline has passed"
                     ELSE IF IsFull(found[1]) THEN "Hackathon is full"
                     ELSE ""
        IN  /\ procs[p].pc = "idle"
            /\ calls < MaxJoinCalls
            /\ calls' = calls + 1
            /\ procs' = [procs EXCEPT ![p] =
                   IF error = "" THEN [pc |-> "select", hackathonId |-> hackathonId,
                                       userId |-> userId]
                   ELSE IdleJoin]
            /\ lastCall' = Outcome("joinHackathon", error = "", error, Null, <<>>, 0)
            /\ UNCHANGED <<progressRows, alerts, now, touchDays, hackVars>>
            /\ UNCHANGED <<analyticVars, trendVars, storeVars>>

\* storage.joinHackathon: "Check if user already joined"
SelectParticipant(p) ==
    LET existing == SelectSeq(hackathonParticipants,
                        LAMBDA r : /\ r.hackathonId = procs[p].hackathonId
                                   /\ r.userId = procs[p].userId)
    IN  /\ procs[p].pc = "select"
        /\ IF existing # <<>>
           THEN /\ procs' = [procs EXCEPT ![p] = IdleJoin]
                /\ lastCall' = Outcome("joinHackathon", FALSE,
                                       "User already joined this hackathon", Null, <<>>, 0)
           ELSE /\ procs' = [procs EXCEPT ![p].pc = "increment"]
                /\ UNCHANGED lastCall
        /\ UNCHANGED <<progressRows, alerts, now, touchDays, calls, hackVars>>
        /\ UNCHANGED <<analyticVars, trendVars, storeVars>>

\* storage.joinHackathon: "Increment participant count", one UPDATE statement
IncrementParticipants(p) ==
    /\ procs[p].pc = "increment"
    /\ hackathons' = [i \in 1..Len(hackathons) |->
           IF hackathons[i].id = procs[p].hackathonId
           THEN [hackathons[i] EXCEPT
                    !.currentParticipants = Num(hackathons[i].currentParticipants.v + 1)]
           ELSE hackathons[i]]
    /\ procs' = [procs EXCEPT ![p].pc = "insert"]
    /\ UNCHANGED <<progressRows, alerts, now, touchDays, calls, lastCall,
                   hackathonParticipants>>
    /\ UNCHANGED <<analyticVars, trendVars, storeVars>>

\* storage.joinHackathon: the insert into hackathon_participants
InsertParticipant(p) ==
    /\ procs[p].pc = "insert"
    /\ hackathonParticipants' = Append(hackathonParticipants,
           [hackathonId |-> procs[p].hackathonId, userId |-> procs[p].userId])
    /\ procs' = [procs EXCEPT ![p] = IdleJoin]
    /\ UNCHANGED <<progressRows, alerts, now, touchDays, calls, lastCall, hackathons>>
    /\ UNCHANGED <<analyticVars, trendVars, storeVars>>

NextJoin ==
    \E p \in Procs :
        \/ CheckHackathon(p)
        \/ SelectParticipant(p)
        \/ IncrementParticipants(p)
        \/ InsertParticipant(p)

SpecJoin == InitJoin /\ [][NextJoin]_vars

-----------------------------------------------------------------------------
(* Claims about the pure analytics functions *)

Range(s) == {s[i] : i \in 1..Len(s)}

AllBonuses(aiRec, module, skillGaps, learningPatterns) ==
    /\ RelatedGap(skillGaps, aiRec.technology) # <<>>
    /\ module.difficulty = learningPatterns.preferredDifficulty
    /\ Abs(module.duration - learningPatterns.preferredDuration) <= 1
    /\ module.rating >= HighRating

\* C1: every tuple returned by createWeightedRecommendations has a score in
\* [0, 1], for any integer priority, gap list, learning pattern and matching
\* module; a suggestion of priority 100 on which all four bonuses apply is
\* returned with score exactly 1.
C1_ScoreWithinUnitInterval ==
    retRecs # <<>> =>
        /\ \A i \in 1..Len(retRecs[1]) :
              0 <= retRecs[1][i].score /\ retRecs[1][i].score <= ScoreDen
        /\ \A aiRec \in Range(argAiRecs) : \A module \in Range(AllModules) :
              ( /\ ModuleMatches(module, aiRec.technology)
                /\ aiRec.priority = 100
                /\ AllBonuses(aiRec, module, retGaps[1], argPatterns) )
              => \E i \in 1..Len(retRecs[1]) :
                    /\ retRecs[1][i].moduleId = module.id
                    /\ retRecs[1][i].score = ScoreDen
                    /\ retRecs[1][i].reason.suffix = GapNote

\* C1 witness: a returned tuple whose unclamped score is 1.75 (priority 100,
\* gapScore 1 and the three module bonuses) and whose score is 1.
C1_Witness ==
    /\ retRecs # <<>>
    /\ \E aiRec \in Range(argAiRecs) : \E module \in Range(AllModules) :
          /\ ModuleMatches(module, aiRec.technology)
          /\ aiRec.priority = 100
          /\ AllBonuses(aiRec, module, retGaps[1], argPatterns)
          /\ 4 * RawScore(aiRec, module, retGaps[1], argPatterns) = 7 * ScoreDen
          /\ \E i \in 1..Len(retRecs[1]) :
                retRecs[1][i].moduleId = module.id /\ retRecs[1][i].score = ScoreDen

GapIndices(skills) == {i \in 1..Len(skills) : skills[i].level.v < GapThreshold}

C5_Result ==
    retGaps # <<>> =>
        LET gaps == retGaps[1]
            idx  == GapIndices(argSkills)
        IN  /\ Len(gaps) = Cardinality(idx)
            \* one entry per input skill below the threshold, none for the others
            /\ \E f \in [1..Len(gaps) -> idx] :
                  /\ \A a, b \in 1..Len(gaps) : f[a] = f[b] => a = b
                  /\ \A k \in 1..Len(gaps) :
                        gaps[k] = [skill  |-> argSkills[f[k]].skill,
                                   gapNum |-> GapThreshold - argSkills[f[k]].level.v]
            /\ \A k \in 1..(Len(gaps) - 1) : gaps[k].gapNum >= gaps[k + 1].gapNum
            /\ \A i \in idx :
                  argSkills[i].level.v >= 0 =>
                      \A k \in 1..Len(gaps) :
                          gaps[k].skill = argSkills[i].skill
                          /\ gaps[k].gapNum = GapThreshold - argSkills[i].level.v
                          => 0 < gaps[k].gapNum /\ gaps[k].gapNum <= GapThreshold

\* C5: identifySkillGaps returns exactly one entry {skill, (70 - level)/70}
\* per input skill with level < 70 and none for level >= 70, in
\* non-increasing gapScore order, with gapScore in (0, 1] for levels 0..69,
\* and leaves its input list as it was.
C5_IdentifySkillGaps == [](C5_Result) /\ [][argSkills' = argSkills]_vars

\* C5 witness: two gaps returned in the reverse of their input order, the
\* larger gap first.
C5_Witness ==
    /\ retGaps # <<>>
    /\ Len(argSkills) = 2 /\ Len(retGaps[1]) = 2
    /\ argSkills[1].level.v > argSkills[2].level.v
    /\ retGaps[1][1].skill = argSkills[2].skill
    /\ retGaps[1][1].gapNum > retGaps[1][2].gapNum

\* C10: calculateSkillProgression classifies every technology with fewer
\* than 4 scores as "stable", whatever the scores are.
C10_FewerThanFourIsStable ==
    retTrend # <<>> =>
        \A k \in 1..Len(retTrend[1]) :
            Len(retTrend[1][k].scores) < 4 => retTrend[1][k].trend = "stable"

\* C10 witness: a technology with the chronological scores [50, 55, 60],
\* classified "stable".
C10_Witness ==
    /\ retTrend # <<>>
    /\ \E k \in 1..Len(retTrend[1]) :
          /\ [i \in 1..Len(retTrend[1][k].scores) |-> retTrend[1][k].scores[i].score.v]
                = <<50, 55, 60>>
          /\ retTrend[1][k].trend = "stable"

-----------------------------------------------------------------------------
(* Claims about the request handlers *)

\* C2: after any sequence of refreshRecommendations, parseAndStoreResume and
\* submitAssessment calls, every persisted recommendation row has a score in
\* [0, 1], whatever priorities the AI returned.
C2_StoredScoresWithinUnitInterval ==
    \A i \in 1..Len(recommendations) :
        0 <= recommendations[i].score /\ recommendations[i].score <= ScoreDen

\* C3: after any sequence of assessment submissions and resume parses, every
\* skill stored in the profile has a level (a number) with 0 <= level <= 100.
C3_SkillLevelsWithinRange ==
    profile.exists =>
        \A i \in 1..Len(profile.skills) :
            /\ IsNumber(profile.skills[i].level)
            /\ 0 <= profile.skills[i].level.v
            /\ profile.skills[i].level.v <= 100

\* C4: a successful assessment submission for a technology that names a
\* skill of the profile (case-insensitively) sets that skill's level to
\* max(prior level, new score), and no submission lowers a stored level or
\* drops a skill.
C4_LevelIsMaxAndNeverDecreases ==
    [][ (lastCall'.op = "submitAssessment" /\ calls' = calls + 1 /\ profile.exists) =>
          /\ \A i \in 1..Len(profile.skills) :
                /\ i <= Len(profile'.skills)
                /\ profile'.skills[i].skill = profile.skills[i].skill
                /\ IsNumber(profile.skills[i].level) =>
                      /\ IsNumber(profile'.skills[i].level)
                      /\ profile'.skills[i].level.v >= profile.skills[i].level.v
          /\ LET k == FindSkillIndex(profile.skills, lastCall'.technology)
             IN  (lastCall'.ok /\ k > 0 /\ IsNumber(profile.skills[k].level)) =>
                    /\ IsNumber(lastCall'.score)
                    /\ profile'.skills[k].level
                          = Num(Max(profile.skills[k].level.v, lastCall'.score.v))
      ]_vars

-----------------------------------------------------------------------------
(* Claims about the tracker *)

\* the calendar days on which some record's lastAccessedAt falls
ActiveDays == {DayOf(progressRows[i].lastAccessedAt) : i \in 1..Len(progressRows)}

Today == DayOf(now)

\* the number of consecutive days of `days` ending at `start`, counting at
\* most `limit` of them
RunFrom(days, start, limit) ==
    CHOOSE n \in 0..limit :
        /\ \A j \in 0..(n - 1) : (start - j) \in days
        /\ n = limit \/ (start - n) \notin days

\* the walk over `days` from today, an inactive today being skipped
RunFromToday(days, limit) ==
    IF Today \in days THEN RunFrom(days, Today, limit)
    ELSE RunFrom(days, Today - 1, limit)

\* C6 as stated: calculateLearningStreak returns the number of consecutive
\* calendar days T, T-1, ... that hold a record's lastAccessedAt, an inactive
\* day T being skipped, however long the run is.
C6_StreakIsWholeRun ==
    retStreak # <<>> =>
        retStreak[1] = RunFromToday(ActiveDays, Cardinality(ActiveDays))

\* C6 (amended): calculateLearningStreak returns the number of consecutive
\* calendar days T, T-1, ... that hold a record's lastAccessedAt, an inactive
\* day T being skipped, counted over the 365 days T .. T-364 only: the result
\* is at most 365 when day T is active and at most 364 when it is not.
C6_StreakIsRunWithinAYear ==
    retStreak # <<>> =>
        retStreak[1] = RunFromToday(ActiveDays,
                           IF Today \in ActiveDays THEN 365 ELSE 364)

\* a run of 366 days ending yesterday, of which 364 are counted
C6_Witness ==
    /\ retStreak = <<364>>
    /\ Today \notin ActiveDays
    /\ \A d \in (Today - 366)..(Today - 1) : d \in ActiveDays

\* records on T, T-1 and T-3 only give 2
C6_Example ==
    /\ retStreak = <<2>>
    /\ ActiveDays = {Today, Today - 1, Today - 3}

\* C7: after any sequence of updateProgress calls the streak computed for the
\* user equals the number of consecutive calendar days, backward from the
\* current day (an update-free current day being skipped), on each of which
\* an updateProgress call wrote.
C7_StreakCountsUpdateDays ==
    calculateLearningStreak(getUserModuleProgress(progressRows), now)
        = RunFromToday(touchDays, Cardinality(touchDays))

CreatedKind(call, kind) ==
    \E i \in 1..Len(call.created) : call.created[i].kind = kind

\* C9: in one checkForStagnation call the stagnant-module alert is created
\* iff some record has 0 < progress < 100 and lastAccessedAt more than 7 days
\* (168 hours) before now, and the inactivity alert is created iff a record
\* exists and none has lastAccessedAt within the last 7 days, each decided
\* without regard to the other.
C9_StagnationChecksIndependent ==
    [][(calls' = calls + 1 /\ lastCall'.ok)
        => /\ CreatedKind(lastCall', "stagnant")
                <=> \E i \in 1..Len(progressRows') :
                        /\ progressRows'[i].progress > 0
                        /\ progressRows'[i].progress < 100
                        /\ now - progressRows'[i].lastAccessedAt > 168
           /\ CreatedKind(lastCall', "inactive")
                <=> /\ Len(progressRows') > 0
                    /\ \A i \in 1..Len(progressRows') :
                           now - progressRows'[i].lastAccessedAt >= 168]_vars

\* one in-progress module untouched for 8 days, another touched today:
\* the stagnant-module alert without the inactivity alert
C9_Witness ==
    /\ lastCall.op = "updateProgress" /\ lastCall.ok
    /\ CreatedKind(lastCall, "stagnant") /\ ~CreatedKind(lastCall, "inactive")
    /\ \E i, j \in 1..Len(progressRows) :
          /\ progressRows[i].progress = 50
          /\ now - progressRows[i].lastAccessedAt = 192
          /\ progressRows[j].lastAccessedAt = now

\* both alerts from one call
C9_BothAlerts ==
    CreatedKind(lastCall, "stagnant") /\ CreatedKind(lastCall, "inactive")

MilestoneAlertAdded ==
    \E i \in (Len(alerts) + 1)..Len(alerts') : alerts'[i].kind = "milestone"

\* C8: updateProgress creates a milestone alert if and only if the number of
\* records with progress >= 100 that its achievement check reads, after its
\* own write, is exactly one of 1, 5, 10, 25, 50.
C8_MilestoneIffExactCount ==
    [][MilestoneAlertAdded
        <=> \E p \in Procs :
               /\ procs[p].pc = "achievements" /\ procs'[p].pc = "streak"
               /\ Cardinality({i \in 1..Len(progressRows) :
                                  progressRows[i].progress >= 100})
                     \in {1, 5, 10, 25, 50}]_vars

\* a request that saw 4 completed modules before its write and 6 at its
\* check, and created no milestone alert
C8_Witness ==
    \E p \in Procs :
        /\ procs[p].pc \in {"streak", "stagnation", "idle"}
        /\ procs[p].before = 4 /\ procs[p].atCheck = 6
        /\ ~CreatedKind(procs[p], "milestone")

\* a request whose check landed exactly on 5 and created the alert
C8_LandsOnFive ==
    \E p \in Procs :
        /\ procs[p].pc \in {"streak", "stagnation", "idle"}
        /\ procs[p].atCheck = 5
        /\ CreatedKind(procs[p], "milestone")

-----------------------------------------------------------------------------
(* Claims about calculateSkillProgression *)

RECURSIVE SumOfScores(_, _, _)
\* scores[from].score + ... + scores[to].score
SumOfScores(scores, from, to) ==
    IF from > to THEN 0
    ELSE scores[from].score.v + SumOfScores(scores, from + 1, to)

\* the trend the rule gives for chronologically ordered scores, n >= 4
TrendByMeans(scores) ==
    LET n      == Len(scores)
        recent == SumOfScores(scores, n - 2, n)
        older  == SumOfScores(scores, 1, n - 3)
    IN  IF recent * (n - 3) > older * 3 + 5 * 3 * (n - 3) THEN "improving"
        ELSE IF recent * (n - 3) < older * 3 - 5 * 3 * (n - 3) THEN "declining"
        ELSE "stable"

\* entry e lists exactly the records of its technology in h, oldest first
ListsChronologically(e, h) ==
    /\ \A i \in 1..(Len(e.scores) - 1) : e.scores[i].date <= e.scores[i + 1].date
    /\ \A s \in Range(e.scores) :
          Cardinality({i \in 1..Len(e.scores) : e.scores[i] = s})
            = Cardinality({i \in 1..Len(h) :
                              /\ h[i].technology = e.technology
                              /\ h[i].score = s.score
                              /\ h[i].completedAt = s.date})
    /\ Len(e.scores) = Cardinality({i \in 1..Len(h) : h[i].technology = e.technology})

C11_Classified ==
    retTrend # <<>> =>
        \A k \in 1..Len(retTrend[1]) :
            Len(retTrend[1][k].scores) >= 4 =>
                /\ ListsChronologically(retTrend[1][k], argHistory)
                /\ retTrend[1][k].trend = TrendByMeans(retTrend[1][k].scores)

RECURSIVE Orderings(_)
\* every arrangement of the index set S as a sequence
Orderings(S) ==
    IF S = {} THEN {<<>>}
    ELSE UNION {{<<x>> \o p : p \in Orderings(S \ {x})} : x \in S}

Reordered(h, p) == [i \in 1..Len(h) |-> h[p[i]]]

TrendsOf(result) == {<<result[k].technology, result[k].trend>> : k \in 1..Len(result)}

DistinctDates(h) ==
    \A i, j \in 1..Len(h) :
        (i # j /\ h[i].technology = h[j].technology) => h[i].completedAt # h[j].completedAt

HasFourOfOneTechnology(h) ==
    \E i \in 1..Len(h) :
        Cardinality({j \in 1..Len(h) : h[j].technology = h[i].technology}) >= 4

\* C11 as stated: with at least 4 scores the trend is "improving" iff
\* mean(last 3 by completedAt) > mean(earlier ones) + 5, "declining" iff it
\* is < mean(earlier ones) - 5, "stable" otherwise, and the trends are the
\* same for every newest-first order in which storage can supply the records.
C11_TrendByMeansAnyOrder ==
    /\ C11_Classified
    /\ (retTrend # <<>> /\ HasFourOfOneTechnology(argHistory)) =>
          \A p \in Orderings(1..Len(argHistory)) :
              NewestFirst(Reordered(argHistory, p)) =>
                  TrendsOf(calculateSkillProgression(Reordered(argHistory, p)))
                      = TrendsOf(retTrend[1])

\* C11 (amended): with at least 4 scores the trend is "improving" iff
\* mean(last 3 by completedAt) > mean(earlier ones) + 5, "declining" iff it
\* is < mean(earlier ones) - 5, "stable" otherwise; when the records of each
\* technology have pairwise distinct completedAt the trends are the same for
\* every order of the supplied records (records with equal completedAt keep
\* their supplied order).
C11_TrendByMeansDistinctDates ==
    /\ C11_Classified
    /\ (retTrend # <<>> /\ HasFourOfOneTechnology(argHistory)
          /\ DistinctDates(argHistory)) =>
          \A p \in Orderings(1..Len(argHistory)) :
              TrendsOf(calculateSkillProgression(Reordered(argHistory, p)))
                  = TrendsOf(retTrend[1])

\* four scores at four different times whose recent mean exceeds the older
\* mean by exactly 5: "stable"
C11_Witness ==
    /\ retTrend # <<>> /\ DistinctDates(argHistory)
    /\ \E k \in 1..Len(retTrend[1]) :
          /\ [i \in 1..Len(retTrend[1][k].scores) |-> retTrend[1][k].scores[i].score.v]
                = <<50, 50, 55, 60>>
          /\ retTrend[1][k].trend = "stable"

\* four scores classified "improving"
C11_Improving ==
    /\ retTrend # <<>>
    /\ \E k \in 1..Len(retTrend[1]) :
          Len(retTrend[1][k].scores) >= 4 /\ retTrend[1][k].trend = "improving"

\* four scores classified "declining"
C11_Declining ==
    /\ retTrend # <<>>
    /\ \E k \in 1..Len(retTrend[1]) :
          Len(retTrend[1][k].scores) >= 4 /\ retTrend[1][k].trend = "declining"

-----------------------------------------------------------------------------
(* Claims about the progress records *)

\* C12: after any sequence of updateModuleProgress calls every progress
\* record has completedAt set if and only if its progress is >= 100.
C12_CompletedAtIffComplete ==
    \A i \in 1..Len(progressRows) :
        (progressRows[i].completedAt # Null) <=> (progressRows[i].progress >= 100)

\* the only record was completed (its completion alert exists) and a later
\* update lowered it to 50: completedAt is cleared again
C12_Witness ==
    /\ Len(progressRows) = 1
    /\ progressRows[1].progress = 50 /\ progressRows[1].completedAt = Null
    /\ \E i \in 1..Len(alerts) : alerts[i].kind = "completion"

\* C13: after any interleaving of updateModuleProgress calls there is at
\* most one progress record per (user, module).
C13_OneRecordPerModule ==
    \A i, j \in 1..Len(progressRows) :
        progressRows[i].moduleId = progressRows[j].moduleId => i = j

-----------------------------------------------------------------------------
(* Claims about the recommendation refresh *)

RefreshStep == calls' = calls + 1 /\ lastCall'.op = "refreshRecommendations"

\* C14: a refresh for a user whose profile is absent or has no skills (an
\* empty list included) fails, with an error other than the one an AI
\* failure gives, and writes no recommendation row.
C14_NoProfileIsDistinctFailure ==
    [][(RefreshStep /\ (~profile.exists \/ profile.skills = <<>>))
        => /\ ~lastCall'.ok
           /\ lastCall'.error # "Failed to generate personalized recommendations"
           /\ recommendations' = recommendations]_vars

\* C15: when the AI collaborator fails (or answers with invalid JSON) during
\* a refresh, the refresh fails after exactly one AI call and the stored
\* recommendation rows are those from before the call.
C15_AiFailureIsTerminal ==
    [][(RefreshStep /\ lastCall'.aiFailed)
        => /\ ~lastCall'.ok
           /\ lastCall'.aiCalls = 1
           /\ recommendations' = recommendations]_vars

\* a refresh that failed on the AI call, with earlier rows still stored
C15_Witness ==
    /\ lastCall.op = "refreshRecommendations" /\ lastCall.aiFailed
    /\ ~lastCall.ok /\ lastCall.aiCalls = 1
    /\ Len(recommendations) > 0

\* the gaps whose skill name and the technology contain one another
C16_MatchingGaps(skillGaps, technology) ==
    {i \in 1..Len(skillGaps) :
        \/ includes(toLowerCase(skillGaps[i].skill), toLowerCase(technology))
        \/ includes(toLowerCase(technology), toLowerCase(skillGaps[i].skill))}

\* the gap term: 0.3 x gapScore of the first matching gap of the list
C16_GapTerm(skillGaps, technology) ==
    LET hits == C16_MatchingGaps(skillGaps, technology)
    IN  IF hits = {} THEN 0
        ELSE LET first == CHOOSE i \in hits : \A j \in hits : i <= j
             IN  (3 * ScoreDen * skillGaps[first].gapNum) \div (10 * GapThreshold)

\* the score before clamping as the five terms of the scoring rule
C16_Expected(aiRec, module, skillGaps, learningPatterns) ==
    (aiRec.priority * ScoreDen) \div 100
    + C16_GapTerm(skillGaps, aiRec.technology)
    + (IF module.difficulty = learningPatterns.preferredDifficulty
       THEN (2 * ScoreDen) \div 10 ELSE 0)
    + (IF module.duration - learningPatterns.preferredDuration \in {-1, 0, 1}
       THEN ScoreDen \div 10 ELSE 0)
    + (IF module.rating >= 45 THEN (15 * ScoreDen) \div 100 ELSE 0)

\* the (suggestion, matching module) pairs of a call
C16_Pairs ==
    {<<k, m>> \in (1..Len(argAiRecs)) \X (1..Len(AllModules)) :
        ModuleMatches(AllModules[m], argAiRecs[k].technology)}

\* the tuple the scoring rule gives for a pair
C16_TupleOf(pair) ==
    LET aiRec    == argAiRecs[pair[1]]
        module   == AllModules[pair[2]]
        expected == C16_Expected(aiRec, module, retGaps[1], argPatterns)
    IN  [moduleId |-> module.id,
         score    |-> IF expected < 0 THEN 0
                      ELSE IF expected > ScoreDen THEN ScoreDen ELSE expected,
         reason   |-> [text   |-> aiRec.reason,
                       suffix |-> IF C16_MatchingGaps(retGaps[1], aiRec.technology) # {}
                                  THEN GapNote ELSE " "]]

\* C16: for each (AI suggestion, matching module) pair the score before
\* clamping is priority/100, plus 0.3 x gapScore of the first skill gap whose
\* name and the suggestion's technology contain one another, plus 0.2, 0.1
\* and 0.15 for the difficulty, duration and rating conditions, and nothing
\* else; the reason carries the skill-gap note exactly when the gap term was
\* applied.  The returned list holds one tuple per pair and no other tuple.
C16_ScoreIsSumOfTerms ==
    retRecs # <<>> =>
        /\ Len(retRecs[1]) = Cardinality(C16_Pairs)
        /\ Range(retRecs[1]) = {C16_TupleOf(pair) : pair \in C16_Pairs}
        /\ \A pair \in C16_Pairs :
              LET aiRec  == argAiRecs[pair[1]]
                  module == AllModules[pair[2]]
              IN  RawScore(aiRec, module, retGaps[1], argPatterns)
                    = C16_Expected(aiRec, module, retGaps[1], argPatterns)

\* a returned tuple whose score was not clamped, on which the gap term was
\* applied through "technology contains the skill name", with the rating
\* bonus and without the difficulty and duration bonuses
C16_Witness ==
    /\ retRecs # <<>>
    /\ \E pair \in C16_Pairs :
          LET aiRec    == argAiRecs[pair[1]]
              module   == AllModules[pair[2]]
              expected == C16_Expected(aiRec, module, retGaps[1], argPatterns)
          IN  /\ 0 < expected /\ expected < ScoreDen
              /\ \E g \in C16_MatchingGaps(retGaps[1], aiRec.technology) :
                    ~includes(toLowerCase(retGaps[1][g].skill),
                              toLowerCase(aiRec.technology))
              /\ aiRec.priority > 0
              /\ module.difficulty # argPatterns.preferredDifficulty
              /\ module.rating >= 45
              /\ module.duration - argPatterns.preferredDuration \notin {-1, 0, 1}
              /\ \E i \in 1..Len(retRecs[1]) :
                    /\ retRecs[1][i].moduleId = module.id
                    /\ retRecs[1][i].score = expected
                    /\ retRecs[1][i].reason.suffix = GapNote

\* the tuples a refresh generates from an AI answer, in the order stored
C17_Generated(aiResponse) ==
    createWeightedRecommendations(aiResponse.recommendations,
        identifySkillGaps(profile.skills),
        ScorerPatterns(analyzeLearningPatterns(getUserAssessments(userAssessments),
                                               progressRows)),
        AllModules)

\* the rows as (moduleId, score, reason) tuples
C17_AsTuples(rows) ==
    [i \in 1..Len(rows) |->
        [moduleId |-> rows[i].moduleId, score |-> rows[i].score, reason |-> rows[i].reason]]

-----------------------------------------------------------------------------
(* Claims about overlapping updateProgress requests *)

\* request q makes its milestone check in this step, after request p made
\* its own, both writes having come before both checks
C18_SecondCheck(p, q) ==
    /\ p # q
    /\ procs[q].pc = "achievements" /\ procs'[q].pc = "streak"
    /\ procs[p].pc \in {"streak", "stagnation"}
    /\ q \in procs[p].pending

C18_MilestoneOf(call) ==
    {call.created[i].n : i \in {j \in 1..Len(call.created) :
                                   call.created[j].kind = "milestone"}}

\* C18: overlapping updateProgress calls are not serialized.  When both
\* writes happen before either achievement check, both checks read the same
\* completed-module count, so a milestone alert for that count is created by
\* both calls or by neither, and a count that only existed between the two
\* writes is read by no check and gets no alert.
C18_OverlappedChecksReadSameCount ==
    [][\A p \in Procs : \A q \in Procs :
          C18_SecondCheck(p, q) =>
              LET n == Cardinality({i \in 1..Len(progressRows) :
                                       progressRows[i].progress >= 100})
                  expected == IF n \in {1, 5, 10, 25, 50} THEN {n} ELSE {}
              IN  /\ procs'[q].raced
                  /\ procs[p].atCheck = n /\ procs'[q].atCheck = n
                  /\ C18_MilestoneOf(procs[p]) = expected
                  /\ C18_MilestoneOf(procs'[q]) = expected]_vars

\* both writes came before both checks, both checks read 1 and the alerts
\* table holds the milestone alert for 1 twice
C18_Witness ==
    \E p \in Procs : \E q \in Procs \ {p} :
        /\ procs[q].raced /\ procs[q].pc = "streak"
        /\ procs[p].pc \in {"streak", "stagnation"}
        /\ procs[p].atCheck = 1 /\ procs[q].atCheck = 1
        /\ C18_MilestoneOf(procs[p]) = {1} /\ C18_MilestoneOf(procs[q]) = {1}
        /\ Cardinality({i \in 1..Len(alerts) :
                           alerts[i].kind = "milestone" /\ alerts[i].n = 1}) = 2

\* both writes came before both checks and raised the count from 4 to 6: no
\* check read 5 and no milestone alert exists
C18_Skipped ==
    \E p \in Procs : \E q \in Procs \ {p} :
        /\ procs[q].raced /\ procs[q].pc = "streak"
        /\ procs[p].pc \in {"streak", "stagnation"}
        /\ {procs[p].before, procs[q].before} = {4, 5}
        /\ procs[p].atCheck = 6 /\ procs[q].atCheck = 6
        /\ \A i \in 1..Len(alerts) : alerts[i].kind # "milestone"

-----------------------------------------------------------------------------
(* Claims about the stagnation check and the streak inside updateProgress *)

UpdateProgressStep == calls' = calls + 1 /\ lastCall'.op = "updateProgress"

\* C19: when checkForStagnation runs as part of a sequential updateProgress,
\* the record just written has lastAccessedAt inside the last 7 days, so
\* updateProgress never creates the general-inactivity alert, whatever the
\* earlier history.
C19_UpdateNeverReportsInactivity ==
    [][UpdateProgressStep
        => /\ ~CreatedKind(lastCall', "inactive")
           /\ \A i \in (Len(alerts) + 1)..Len(alerts') : alerts'[i].kind # "inactive"
           /\ lastCall'.ok =>
                \E i \in 1..Len(progressRows') :
                    progressRows'[i].lastAccessedAt > now - 7 * 24]_vars

\* an updateProgress made when every other record was last accessed more than
\* 7 days ago: only the record just written is recent and no inactivity alert
\* was created
C19_Witness ==
    /\ lastCall.op = "updateProgress" /\ lastCall.ok
    /\ Len(progressRows) >= 2
    /\ Cardinality({i \in 1..Len(progressRows) :
                       progressRows[i].lastAccessedAt > now - 7 * 24}) = 1
    /\ \E i \in 1..Len(progressRows) : progressRows[i].lastAccessedAt = now
    /\ ~CreatedKind(lastCall, "inactive")

\* the streak calculateLearningStreak returns in the current state
C20_Streak == calculateLearningStreak(getUserModuleProgress(progressRows), now)

\* C20: a progress record keeps only its latest lastAccessedAt, so after any
\* sequence of updates the streak never exceeds the number of the user's
\* progress records, nor 365; after the same single module was updated on N
\* consecutive days, today the last of them, the streak is 1.
C20_StreakAtMostRecords ==
    /\ C20_Streak <= Len(progressRows)
    /\ C20_Streak <= 365
    /\ (Len(progressRows) = 1 /\ (now \div 24) \in touchDays) => C20_Streak = 1

\* one module updated on three consecutive days, today the third: one record
\* and a streak of 1
C20_Witness ==
    /\ lastCall.op = "updateProgress" /\ lastCall.ok
    /\ Len(progressRows) = 1
    /\ touchDays = {(now \div 24) - 2, (now \div 24) - 1, now \div 24}
    /\ C20_Streak = 1

\* two modules updated on two consecutive days: two records and a streak of 2
C20_TwoRecords ==
    /\ Len(progressRows) = 2
    /\ touchDays = {(now \div 24) - 1, now \div 24}
    /\ C20_Streak = 2

-----------------------------------------------------------------------------
(* Claims about the list createWeightedRecommendations returns *)

\* module m's technology or title contains suggestion k's technology
C21_Contains(k, m) ==
    \/ includes(toLowerCase(AllModules[m].technology), toLowerCase(argAiRecs[k].technology))
    \/ includes(toLowerCase(AllModules[m].title), toLowerCase(argAiRecs[k].technology))

C21_Pairs ==
    {<<k, m>> \in (1..Len(argAiRecs)) \X (1..Len(AllModules)) : C21_Contains(k, m)}

\* the tuple for suggestion k and module m, scored from suggestion k
C21_TupleOf(pair) ==
    WeightedRec(argAiRecs[pair[1]], AllModules[pair[2]], retGaps[1], argPatterns)

RECURSIVE C21_SumOfMatches(_)
\* the number of matching modules, summed over suggestions 1..k
C21_SumOfMatches(k) ==
    IF k = 0 THEN 0
    ELSE Cardinality({m \in 1..Len(AllModules) : C21_Contains(k, m)})
         + C21_SumOfMatches(k - 1)

\* C21: createWeightedRecommendations returns as many tuples as the sum, over
\* the AI suggestions, of the catalog modules whose technology or title
\* contains the suggestion's technology case-insensitively; a module matched
\* by k suggestions appears k times, each entry scored from its own
\* suggestion.
C21_OneTuplePerMatch ==
    retRecs # <<>> =>
        /\ Len(retRecs[1]) = C21_SumOfMatches(Len(argAiRecs))
        /\ \A m \in 1..Len(AllModules) :
              Cardinality({i \in 1..Len(retRecs[1]) :
                              retRecs[1][i].moduleId = AllModules[m].id})
                = Cardinality({k \in 1..Len(argAiRecs) : C21_Contains(k, m)})
        /\ \A t \in Range(retRecs[1]) \cup {C21_TupleOf(pair) : pair \in C21_Pairs} :
              Cardinality({i \in 1..Len(retRecs[1]) : retRecs[1][i] = t})
                = Cardinality({pair \in C21_Pairs : C21_TupleOf(pair) = t})

\* a module matched by two suggestions, one of them through its title only,
\* returned twice with two different scores
C21_Witness ==
    /\ retRecs # <<>>
    /\ \E m \in 1..Len(AllModules) : \E i, j \in 1..Len(retRecs[1]) :
          /\ Cardinality({k \in 1..Len(argAiRecs) : C21_Contains(k, m)}) = 2
          /\ \E k \in 1..Len(argAiRecs) :
                /\ C21_Contains(k, m)
                /\ ~includes(toLowerCase(AllModules[m].technology),
                             toLowerCase(argAiRecs[k].technology))
          /\ i # j
          /\ retRecs[1][i].moduleId = AllModules[m].id
          /\ retRecs[1][j].moduleId = AllModules[m].id
          /\ retRecs[1][i].score # retRecs[1][j].score

\* C22: createWeightedRecommendations does not sort its output: the tuples
\* come back in generation order, suggestions in input order and each
\* suggestion's matching modules in catalog order.
C22_ReturnsGenerationOrder ==
    retRecs # <<>> =>
        retRecs[1] = WeightedFrom(argAiRecs, retGaps[1], argPatterns, AllModules, 1)

-----------------------------------------------------------------------------
(* Claims about the alerts updateProgress creates *)

\* the alerts of one kind the step appended to the alerts table
AppendedKind(kind) ==
    {i \in (Len(alerts) + 1)..Len(alerts') : alerts'[i].kind = kind}

C23_Completed(rows) ==
    {i \in 1..Len(rows) : rows[i].progress >= 100}

\* C23: alerts are not deduplicated.  Every successful updateProgress call made
\* while the completed-module count is 1, 5, 10, 25 or 50 creates one more
\* milestone alert, also when the call left the count unchanged, and every
\* call with progress >= 100 on an already completed module creates one more
\* completion alert.
C23_AlertsRepeat ==
    [][(UpdateProgressStep /\ lastCall'.ok)
        => /\ Cardinality(C23_Completed(progressRows')) \in {1, 5, 10, 25, 50}
                => Cardinality(AppendedKind("milestone")) = 1
           /\ ( /\ lastCall'.args[2] >= 100
                /\ \E i \in C23_Completed(progressRows) :
                      progressRows[i].moduleId = lastCall'.args[1] )
                => Cardinality(AppendedKind("completion")) = 1]_vars

\* a call that set an unfinished module to 50% while exactly one module was
\* complete: the count stayed 1 and the table holds a second milestone alert
\* for 1
C23_Witness ==
    /\ lastCall.op = "updateProgress" /\ lastCall.ok
    /\ lastCall.args[2] = 50
    /\ Cardinality(C23_Completed(progressRows)) = 1
    /\ CreatedKind(lastCall, "milestone")
    /\ Cardinality({i \in 1..Len(alerts) :
                       alerts[i].kind = "milestone" /\ alerts[i].n = 1}) >= 2

\* one module completed twice: one record, two completion alerts
C23_CompletedTwice ==
    /\ lastCall.op = "updateProgress" /\ lastCall.ok
    /\ lastCall.args[2] = 100
    /\ Len(progressRows) = 1
    /\ Cardinality({i \in 1..Len(alerts) : alerts[i].kind = "completion"}) = 2

\* C30: an updateProgress call with progress >= 100 creates a completion alert
\* of type "achievement", and a call with progress below 100 creates no
\* completion alert, whatever the module's previous progress.
C30_CompletionAlertIffComplete ==
    [][(UpdateProgressStep /\ lastCall'.ok)
        => /\ (AppendedKind("completion") # {}) <=> (lastCall'.args[2] >= 100)
           /\ \A i \in AppendedKind("completion") : alerts'[i].type = "achievement"]_vars

\* a completed module set back below 100: no completion alert from that call
C30_Witness ==
    /\ lastCall.op = "updateProgress" /\ lastCall.ok
    /\ lastCall.args[2] = 50
    /\ \E i \in 1..Len(progressRows) :
          /\ progressRows[i].moduleId = lastCall.args[1]
          /\ progressRows[i].progress = 50
    /\ \E i \in 1..Len(alerts) : alerts[i].kind = "completion"
    /\ Len(progressRows) = 1
    /\ ~CreatedKind(lastCall, "completion")

\* an unfinished module set to 100: the call created the completion alert
C30_Completes ==
    /\ lastCall.op = "updateProgress" /\ lastCall.ok
    /\ lastCall.args[2] = 100
    /\ Len(progressRows) = 1
    /\ \E i \in 1..Len(alerts) : alerts[i].kind = "stagnant" \/ alerts[i].kind = "milestone"
    /\ CreatedKind(lastCall, "completion")

-----------------------------------------------------------------------------
(* Claims about submitAssessment *)

\* C24: for every assessment with at least one question and every answers
\* list, also one that repeats a questionId or names unknown questions, the
\* stored row has correctAnswers <= totalQuestions and an integer score in
\* 0..100.
C24_ScoreWithinPercentRange ==
    \A i \in 1..Len(userAssessments) :
        userAssessments[i].totalQuestions >= 1 =>
            /\ userAssessments[i].correctAnswers <= userAssessments[i].totalQuestions
            /\ IsNumber(userAssessments[i].score)
            /\ userAssessments[i].score.v \in 0..100

SubmitStep == calls' = calls + 1 /\ lastCall'.op = "submitAssessment"

\* C25: a submitAssessment call that ends in failure leaves the persisted
\* state unchanged; in particular no user-assessment row is stored when the
\* user has no profile.
C25_FailedSubmitChangesNothing ==
    [][(SubmitStep /\ ~lastCall'.ok)
        => /\ userAssessments' = userAssessments
           /\ profile' = profile
           /\ recommendations' = recommendations]_vars

\* the step is a submitAssessment or parseAndStoreResume call whose
\* recommendation step met an AI failure
C27_AiFailedAfterUpdate ==
    /\ calls' = calls + 1
    /\ lastCall'.op \in {"submitAssessment", "parseAndStoreResume"}
    /\ lastCall'.aiFailed

\* C27: an AI failure during the recommendation step that follows a skill
\* update or a resume parse is swallowed: the call still succeeds, the
\* user-assessment row and the updated skills (or the parsed profile) stay
\* persisted, and the step adds no recommendation row.
C27_AiFailureSwallowed ==
    [][C27_AiFailedAfterUpdate
        => /\ lastCall'.ok
           /\ recommendations' = recommendations
           /\ profile'.exists
           /\ lastCall'.op = "submitAssessment" =>
                /\ Len(userAssessments') = Len(userAssessments) + 1
                /\ userAssessments'[Len(userAssessments')].score = lastCall'.score
                /\ \E i \in 1..Len(profile'.skills) :
                      /\ toLowerCase(profile'.skills[i].skill)
                            = toLowerCase(lastCall'.technology)
                      /\ i <= Len(profile.skills) =>
                            profile'.skills[i].level
                               = JsonRoundTrip(MathMax(profile.skills[i].level,
                                                       lastCall'.score))
                      /\ i > Len(profile.skills) =>
                            profile'.skills[i].level = JsonRoundTrip(lastCall'.score)
                /\ \A i \in 1..Len(profile.skills) :
                      toLowerCase(profile.skills[i].skill) # toLowerCase(lastCall'.technology)
                         => profile'.skills[i] = profile.skills[i]]_vars

\* a submitAssessment that succeeded although the AI failed: the row is
\* stored, the skill level was raised from 40 to 50 and the recommendation
\* table is still empty
C27_Witness ==
    /\ lastCall.op = "submitAssessment" /\ lastCall.ok /\ lastCall.aiFailed
    /\ Len(userAssessments) = 1
    /\ userAssessments[1].score = Num(50)
    /\ \E i \in 1..Len(profile.skills) : profile.skills[i].level = Num(50)
    /\ calls = 1
    /\ recommendations = <<>>

\* a resume upload that succeeded although the AI failed
C27_ResumeStored ==
    /\ lastCall.op = "parseAndStoreResume" /\ lastCall.ok /\ lastCall.aiFailed
    /\ profile.exists /\ Len(profile.skills) = 1
    /\ Len(recommendations) > 0

\* C26: under any interleaving of concurrent submitAssessment calls, a skill
\* level once stored in the profile is never replaced by a lower level and a
\* skill once added is never dropped.
C26_NoLostSkillUpdate ==
    [][\A i \in 1..Len(profile.skills) :
          \E j \in 1..Len(profile'.skills) :
              /\ profile'.skills[j].skill = profile.skills[i].skill
              /\ profile'.skills[j].level.v >= profile.skills[i].level.v]_vars


\* C28: under any interleaving of joinHackathon calls a hackathon whose
\* maxParticipants is set never has currentParticipants above maxParticipants,
\* and once every call has finished currentParticipants equals the number of
\* participant rows of the hackathon.
C28_CapAndCountHold ==
    \A i \in 1..Len(hackathons) :
        LET h == hackathons[i]
        IN  /\ (IsNumber(h.maxParticipants) /\ h.maxParticipants.v # 0)
                   => ToNumber(h.currentParticipants) <= h.maxParticipants.v
            /\ (\A p \in DOMAIN procs : procs[p].pc = "idle")
                   => ToNumber(h.currentParticipants) = Len(ParticipantsOf(h.id))

C29_History == getUserAssessments(userAssessments)

C29_Keys == Range(DifficultiesOf(C29_History, 1, <<>>))

\* the mean score of difficulty d is at least that of every difficulty taken
C29_HighestMean(d) ==
    /\ d \in C29_Keys
    /\ \A e \in C29_Keys :
           LET scoresD == ScoresOfDifficulty(C29_History, d)
               scoresE == ScoresOfDifficulty(C29_History, e)
           IN  SumScores(scoresD).v * Len(scoresE) >= SumScores(scoresE).v * Len(scoresD)

\* C29: analyzeLearningPatterns returns as preferredDifficulty a difficulty
\* whose assessments have the highest mean score whenever the assessment
\* history is non-empty (also when every mean is 0), and "intermediate" when
\* the history is empty.
C29_PreferredIsHighestMean ==
    LET preferred ==
            analyzeLearningPatterns(C29_History, progressRows).preferredDifficulty
    IN  IF C29_History = <<>>
        THEN preferred = "intermediate"
        ELSE (\A i \in 1..Len(C29_History) : IsNumber(C29_History[i].score))
                 => C29_HighestMean(preferred)

=========================================================================
